---- MODULE Spec2Model ----
(***************************************************************************)
(* Verification model of wealth_pulse: the transaction balance/inference   *)
(* engine (parser/ast.rs), account lineage derivation, and the combine     *)
(* based ledger grammar (parser/parse.rs).                                 *)
(*                                                                         *)
(* Conventions                                                             *)
(*   - a Rust String is a sequence of one-character strings;               *)
(*   - Option<T> is None or Some(v);                                       *)
(*   - a d128 is NaN or a sign, a coefficient and an exponent (the decimal *)
(*     crate is an external dependency; below its 34 digits of precision   *)
(*     its arithmetic is exact, and the model stays below them);           *)
(*   - Vec indexes are 0-based in the code: Vec element i is seq[i + 1].   *)
(***************************************************************************)
EXTENDS Integers, Sequences, FiniteSets, TLC

VARIABLES
    header,          \* RawTransaction.header of the transaction under construction
    postings,        \* RawTransaction.postings (Vec<RawPosting>)
    balance_status,  \* local `balance_status` of RawTransaction::into_postings
    result,          \* value returned by RawTransaction::into_postings
    rc_heap,         \* Rc<Header> allocations: handle -> Header value
    calls,           \* number of completed RawTransaction::into_postings calls
    sub_accounts,    \* argument of build_account_lineage
    account_lineage, \* value returned by build_account_lineage
    contents,        \* text of the file read by parse_ledger / parse_pricedb
    lines_read,      \* number of lines the file has so far
    parsed,          \* outcome of parse_ledger / parse_pricedb
    input,           \* text handed to one parser of the grammar
    output           \* which parser ran on `input`, and its ParseResult

vars == <<header, postings, balance_status, result, rc_heap, calls,
          sub_accounts, account_lineage, contents, lines_read, parsed,
          input, output>>

balVars == <<header, postings, balance_status, result, rc_heap, calls>>
linVars == <<sub_accounts, account_lineage>>
parseVars == <<contents, lines_read, parsed>>
tokVars == <<input, output>>

(***************************************************************************)
(* Bounds                                                                  *)
(***************************************************************************)
MaxPostings == 3
MaxQty == 1
MaxCalls == 2
MaxSegments == 3
MaxSegLen == 2
MaxLines == 4
MaxTokenLen == 3
MaxYearDigits == 5
MaxFractionDigits == 7

(***************************************************************************)
(* Option                                                                  *)
(***************************************************************************)
None == [some |-> FALSE]
Some(x) == [some |-> TRUE, v |-> x]

NotRun == [kind |-> "NotRun"]

(***************************************************************************)
(* decimal::d128, the type of Amount.quantity: NaN, or the finite number   *)
(* (-1)^neg * coefficient * 10^exponent.  The sums of the model stay far   *)
(* below the 34 digits a d128 holds, so no result is rounded.              *)
(***************************************************************************)
NaN == [nan |-> TRUE]

Decimal(neg, coefficient, exponent) ==
    [nan |-> FALSE, neg |-> neg, coefficient |-> coefficient, exponent |-> exponent]

\* 10 to the power n
RECURSIVE Pow10(_)
Pow10(n) == IF n = 0 THEN 1 ELSE 10 * Pow10(n - 1)

\* d128 == d128: two numbers are equal when they have the same value,
\* whatever their exponents (1.50 == 1.5); NaN equals nothing
QuantityEq(a, b) ==
    /\ ~a.nan /\ ~b.nan
    /\ LET m == IF a.exponent < b.exponent THEN a.exponent ELSE b.exponent
           sa == IF a.neg THEN 0 - a.coefficient ELSE a.coefficient
           sb == IF b.neg THEN 0 - b.coefficient ELSE b.coefficient
       IN  sa * Pow10(a.exponent - m) = sb * Pow10(b.exponent - m)

\* d128 != d128: the negation of ==, so NaN != x holds for every x
d128_ne(a, b) == ~QuantityEq(a, b)

\* d128 > d128: false when either side is NaN
d128_gt(a, b) == ~a.nan /\ ~b.nan /\ ~QuantityEq(a, b) /\
    LET m == IF a.exponent < b.exponent THEN a.exponent ELSE b.exponent
        sa == IF a.neg THEN 0 - a.coefficient ELSE a.coefficient
        sb == IF b.neg THEN 0 - b.coefficient ELSE b.coefficient
    IN  sa * Pow10(a.exponent - m) > sb * Pow10(b.exponent - m)

\* d128 + d128: NaN when either side is NaN, else the exact sum at the
\* smaller exponent; a zero sum is negative only when both sides are
d128_add(a, b) ==
    IF a.nan \/ b.nan THEN NaN
    ELSE LET m == IF a.exponent < b.exponent THEN a.exponent ELSE b.exponent
             sa == IF a.neg THEN 0 - a.coefficient ELSE a.coefficient
             sb == IF b.neg THEN 0 - b.coefficient ELSE b.coefficient
             sum == sa * Pow10(a.exponent - m) + sb * Pow10(b.exponent - m)
         IN  Decimal(IF sum = 0 THEN a.neg /\ b.neg ELSE sum < 0,
                     IF sum < 0 THEN 0 - sum ELSE sum, m)

\* d128 * d128: NaN when either side is NaN
d128_mul(a, b) ==
    IF a.nan \/ b.nan THEN NaN
    ELSE Decimal(a.neg # b.neg, a.coefficient * b.coefficient,
                 a.exponent + b.exponent)

(***************************************************************************)
(* core/symbol.rs, core/amount.rs, core/header.rs, core/posting.rs         *)
(***************************************************************************)
Symbol_new(symbol, quote_option) ==
    [value |-> symbol, quote_option |-> quote_option]

RenderOptions_new(position, spacing) ==
    [symbol_position |-> position, spacing |-> spacing]

Amount_new(quantity, symbol, render_opts) ==
    [quantity |-> quantity, symbol |-> symbol, render_options |-> render_opts]

Header_new(date, status, code, payee, comment) ==
    [date |-> date, status |-> status, code |-> code, payee |-> payee,
     comment |-> comment]

Posting_new(hdr, account, lineage, amount, amount_source, comment) ==
    [header |-> hdr, account |-> account, account_lineage |-> lineage,
     amount |-> amount, amount_source |-> amount_source, comment |-> comment]

(***************************************************************************)
(* Vec<String>::join(":")                                                  *)
(***************************************************************************)
RECURSIVE join(_, _)
join(strs, sep) ==
    IF Len(strs) = 0 THEN <<>>
    ELSE IF Len(strs) = 1 THEN strs[1]
    ELSE strs[1] \o sep \o join(Tail(strs), sep)

(***************************************************************************)
(* parser/ast.rs                                                           *)
(***************************************************************************)
RawPosting_new(subs, amount, amount_source, comment) ==
    [full_account |-> join(subs, <<":">>),
     sub_accounts |-> subs,
     amount |-> amount,
     amount_source |-> amount_source,
     comment |-> comment]

\* HashMap::entry(..) Vacant => insert
MapInsert(m, k, x) ==
    [y \in (DOMAIN m) \cup {k} |-> IF y = k THEN x ELSE m[y]]

\* the accumulation loop of ensure_balanced; acc holds the three locals
Accumulate_overwrite(acc, index, posting) ==
    IF posting.amount.some
    THEN LET amount == posting.amount.v
             key == amount.symbol.value
         IN  [acc EXCEPT !.balance = MapInsert(acc.balance, key, amount)]
    ELSE [acc EXCEPT !.num_missing_amounts = @ + 1,
                     !.inferred_posting_index = index]

Accumulate_missing_flag(acc, index, posting) ==
    IF posting.amount.some
    THEN LET amount == posting.amount.v
             key == amount.symbol.value
         IN  IF key \in DOMAIN acc.balance
             THEN [acc EXCEPT !.balance[key].quantity = d128_add(@, amount.quantity)]
             ELSE [acc EXCEPT !.balance = MapInsert(acc.balance, key, amount)]
    ELSE [acc EXCEPT !.num_missing_amounts = 1,
                     !.inferred_posting_index = index]

\* the loop body with a map key made of the symbol's text and quoting flag
Accumulate_key_symbol(acc, index, posting) ==
    IF posting.amount.some
    THEN LET amount == posting.amount.v
             key == Append(amount.symbol.value, amount.symbol.quote_option)
         IN  IF key \in DOMAIN acc.balance
             THEN [acc EXCEPT !.balance[key].quantity = d128_add(@, amount.quantity)]
             ELSE [acc EXCEPT !.balance = MapInsert(acc.balance, key, amount)]
    ELSE [acc EXCEPT !.num_missing_amounts = @ + 1,
                     !.inferred_posting_index = index]

\* the loop body with an Occupied arm that also takes the later posting's
\* Symbol and RenderOptions
Accumulate_keep_last(acc, index, posting) ==
    IF posting.amount.some
    THEN LET amount == posting.amount.v
             key == amount.symbol.value
         IN  IF key \in DOMAIN acc.balance
             THEN [acc EXCEPT !.balance[key] =
                      Amount_new(d128_add(@.quantity, amount.quantity),
                                 amount.symbol, amount.render_options)]
             ELSE [acc EXCEPT !.balance = MapInsert(acc.balance, key, amount)]
    ELSE [acc EXCEPT !.num_missing_amounts = @ + 1,
                     !.inferred_posting_index = index]

Accumulate(acc, index, posting) ==
    IF posting.amount.some
    THEN LET amount == posting.amount.v
             key == amount.symbol.value
         IN  IF key \in DOMAIN acc.balance
             THEN [acc EXCEPT !.balance[key].quantity = d128_add(@, amount.quantity)]
             ELSE [acc EXCEPT !.balance = MapInsert(acc.balance, key, amount)]
    ELSE [acc EXCEPT !.num_missing_amounts = @ + 1,
                     !.inferred_posting_index = index]

\* the loop leaving at the first posting without an amount
RECURSIVE ScanPostings_until_missing(_, _, _)
ScanPostings_until_missing(ps, index, acc) ==
    IF index >= Len(ps) THEN acc
    ELSE IF ~ps[index + 1].amount.some
         THEN Accumulate(acc, index, ps[index + 1])
         ELSE ScanPostings_until_missing(ps, index + 1,
                                         Accumulate(acc, index, ps[index + 1]))

RECURSIVE ScanPostings(_, _, _)
ScanPostings(ps, index, acc) ==
    IF index >= Len(ps) THEN acc
    ELSE ScanPostings(ps, index + 1, Accumulate(acc, index, ps[index + 1]))

unbalanced_symbols_positive(balance) ==
    LET keep == {k \in DOMAIN balance : d128_gt(balance[k].quantity, Decimal(FALSE, 0, 0))}
    IN  [k \in keep |-> balance[k]]

unbalanced_symbols(balance) ==
    LET keep == {k \in DOMAIN balance : d128_ne(balance[k].quantity, Decimal(FALSE, 0, 0))}
    IN  [k \in keep |-> balance[k]]

InferredPosting_not_negated(posting, remaining_balance) ==
    RawPosting_new(
        posting.sub_accounts,
        Some(Amount_new(remaining_balance.quantity,
                        remaining_balance.symbol,
                        remaining_balance.render_options)),
        "Inferred",
        posting.comment)

\* the rebuilt posting without the comment of the posting it replaces
InferredPosting_no_comment(posting, remaining_balance) ==
    RawPosting_new(
        posting.sub_accounts,
        Some(Amount_new(d128_mul(Decimal(TRUE, 1, 0), remaining_balance.quantity),
                        remaining_balance.symbol,
                        remaining_balance.render_options)),
        "Inferred",
        None)

InferredPosting(posting, remaining_balance) ==
    RawPosting_new(
        posting.sub_accounts,
        Some(Amount_new(d128_mul(Decimal(TRUE, 1, 0), remaining_balance.quantity),
                        remaining_balance.symbol,
                        remaining_balance.render_options)),
        "Inferred",
        posting.comment)

balanced_postings(ps, inferred_posting_index, remaining_balance) ==
    [i \in 1..Len(ps) |->
        IF i - 1 = inferred_posting_index
        THEN InferredPosting(ps[i], remaining_balance)
        ELSE ps[i]]

Balanced(ps) == [kind |-> "Balanced", postings |-> ps]
MultipleAmountsMissing(n) == [kind |-> "MultipleAmountsMissing", n |-> n]
Unbalanced(remaining) == [kind |-> "Unbalanced", remaining |-> remaining]

ensure_balanced_drop_missing(ps) ==
    LET acc == ScanPostings(ps, 0,
                   [balance |-> <<>>, num_missing_amounts |-> 0,
                    inferred_posting_index |-> 0])
        unbalanced == unbalanced_symbols(acc.balance)
        HasAmount(p) == p.amount.some
    IN  IF acc.num_missing_amounts > 1
        THEN MultipleAmountsMissing(acc.num_missing_amounts)
        ELSE IF acc.num_missing_amounts = 1 /\ Cardinality(DOMAIN unbalanced) = 1
        THEN LET k == CHOOSE x \in DOMAIN unbalanced : TRUE
             IN  Balanced(balanced_postings(ps, acc.inferred_posting_index,
                                            unbalanced[k]))
        ELSE IF Cardinality(DOMAIN unbalanced) = 0
        THEN Balanced(SelectSeq(ps, HasAmount))
        ELSE Unbalanced(unbalanced)

ensure_balanced(ps) ==
    LET acc == ScanPostings(ps, 0,
                   [balance |-> <<>>, num_missing_amounts |-> 0,
                    inferred_posting_index |-> 0])
        unbalanced == unbalanced_symbols(acc.balance)
    IN  IF acc.num_missing_amounts > 1
        THEN MultipleAmountsMissing(acc.num_missing_amounts)
        ELSE IF acc.num_missing_amounts = 1 /\ Cardinality(DOMAIN unbalanced) = 1
        THEN LET k == CHOOSE x \in DOMAIN unbalanced : TRUE
             IN  Balanced(balanced_postings(ps, acc.inferred_posting_index,
                                            unbalanced[k]))
        ELSE IF Cardinality(DOMAIN unbalanced) = 0
        THEN Balanced(ps)
        ELSE Unbalanced(unbalanced)

build_account_lineage(subs) ==
    LET RECURSIVE loop(_, _, _)
        loop(i, account, lineage) ==
            IF i > Len(subs) THEN lineage
            ELSE LET next == IF Len(account) = 0
                             THEN account \o subs[i]
                             ELSE (account \o <<":">>) \o subs[i]
                 IN  loop(i + 1, next, Append(lineage, next))
    IN  loop(1, <<>>, <<>>)

\* fn into_postings: one Rc::new(header), then one Posting per RawPosting;
\* Option::expect aborts the program on a missing amount.
into_postings_rc_each(heap, hdr, raw_postings) ==
    LET base == Cardinality(DOMAIN heap)
        n == IF Len(raw_postings) = 0 THEN 1 ELSE Len(raw_postings)
    IN  IF \E i \in 1..Len(raw_postings) : ~raw_postings[i].amount.some
        THEN [panic |-> TRUE,
              heap |-> [h \in 1..(base + 1) |-> IF h \in DOMAIN heap THEN heap[h] ELSE hdr]]
        ELSE [panic |-> FALSE,
              heap |-> [h \in 1..(base + n) |-> IF h \in DOMAIN heap THEN heap[h] ELSE hdr],
              postings |->
                [i \in 1..Len(raw_postings) |->
                    LET p == raw_postings[i]
                    IN  Posting_new(base + i, p.full_account,
                                    build_account_lineage(p.sub_accounts),
                                    p.amount.v, p.amount_source, p.comment)]]

into_postings(heap, hdr, raw_postings) ==
    LET rc == Cardinality(DOMAIN heap) + 1
        heap1 == [h \in 1..rc |-> IF h = rc THEN hdr ELSE heap[h]]
    IN  IF \E i \in 1..Len(raw_postings) : ~raw_postings[i].amount.some
        THEN [panic |-> TRUE, heap |-> heap1]
        ELSE [panic |-> FALSE,
              heap |-> heap1,
              postings |->
                [i \in 1..Len(raw_postings) |->
                    LET p == raw_postings[i]
                    IN  Posting_new(rc, p.full_account,
                                    build_account_lineage(p.sub_accounts),
                                    p.amount.v, p.amount_source, p.comment)]]

\* the value of RawTransaction::into_postings for a balance status:
\* format!() strings are kept as the sequence of their literal pieces and
\* interpolated arguments.
Ok(x) == [kind |-> "Ok", postings |-> x]
Err(msg) == [kind |-> "Err", msg |-> msg]
Panic(msg) == [kind |-> "Panic", msg |-> msg]

RawTransaction_into_postings(heap, hdr, ps) ==
    LET bstatus == ensure_balanced(ps)
    IN  CASE bstatus.kind = "Balanced" ->
                LET low == into_postings(heap, hdr, bstatus.postings)
                IN  [status |-> bstatus, heap |-> low.heap,
                     value |-> IF low.panic
                               THEN Panic("Encountered unexpected missing amount")
                               ELSE Ok(low.postings)]
          [] bstatus.kind = "MultipleAmountsMissing" ->
                [status |-> bstatus, heap |-> heap,
                 value |-> Err(<<[lit |-> "Encountered "], [num |-> bstatus.n],
                                 [lit |-> " missing amounts"]>>)]
          [] bstatus.kind = "Unbalanced" ->
                [status |-> bstatus, heap |-> heap,
                 value |-> Err(<<[lit |-> "Encountered unbalanced transaction"]>>)]

(***************************************************************************)
(* Inputs of the balance engine                                            *)
(***************************************************************************)
Headers ==
    { Header_new([y |-> 2015, m |-> 10, d |-> 20], "Cleared", None,
                 <<"P">>, None),
      Header_new([y |-> 2016, m |-> 6, d |-> 7], "Uncleared", Some(<<"c">>),
                 <<"Q">>, Some(<<"x">>)) }

Symbols ==
    { Symbol_new(<<"$">>, "Unquoted"),
      Symbol_new(<<"$">>, "Quoted"),
      Symbol_new(<<"A">>, "Unquoted") }

\* the RenderOptions each symbol of the inputs is written with
RenderOf(sym) ==
    IF sym.quote_option = "Quoted"
    THEN RenderOptions_new("Right", "Space")
    ELSE RenderOptions_new("Left", "NoSpace")

\* the whole numbers of -MaxQty..MaxQty, and the NaN that quantity yields
\* for a literal such as 1.1.1
Quantities ==
    { Decimal(n < 0, IF n < 0 THEN 0 - n ELSE n, 0) : n \in (-MaxQty)..MaxQty }
    \cup {NaN}

Amounts ==
    { Amount_new(q, s, RenderOf(s)) : q \in Quantities, s \in Symbols }

OptAmounts == {None} \cup { Some(a) : a \in Amounts }

\* account path, comment and source tag of the input postings
Decor ==
    { [subs |-> <<<<"A">>>>, comment |-> None, flip |-> FALSE],
      [subs |-> <<<<"A">>, <<"B">>>>, comment |-> Some(<<"n">>), flip |-> TRUE] }

RawPostings ==
    { RawPosting_new(d.subs, a,
                     IF a.some = d.flip THEN "Inferred" ELSE "Provided",
                     d.comment) : d \in Decor, a \in OptAmounts }

(***************************************************************************)
(* Balance engine: actions                                                 *)
(***************************************************************************)
InitBalance ==
    /\ header \in Headers
    /\ postings = <<>>
    /\ balance_status = NotRun
    /\ result = NotRun
    /\ rc_heap = <<>>
    /\ calls = 0
    /\ sub_accounts = <<>>
    /\ account_lineage = None
    /\ contents = <<>>
    /\ lines_read = 0
    /\ parsed = NotRun
    /\ input = <<>>
    /\ output = NotRun

\* the caller pushes RawPosting::new(..) onto the Vec it will hand over
PushPosting ==
    /\ result = NotRun
    /\ Len(postings) < MaxPostings
    /\ \E p \in RawPostings : postings' = Append(postings, p)
    /\ UNCHANGED <<header, balance_status, result, rc_heap, calls>>
    /\ UNCHANGED linVars
    /\ UNCHANGED parseVars
    /\ UNCHANGED tokVars

\* RawTransaction::new(header, postings).into_postings()
IntoPostings ==
    /\ result = NotRun
    /\ LET r == RawTransaction_into_postings(rc_heap, header, postings)
       IN  /\ balance_status' = r.status
           /\ result' = r.value
           /\ rc_heap' = r.heap
    /\ calls' = calls + 1
    /\ UNCHANGED <<header, postings>>
    /\ UNCHANGED linVars
    /\ UNCHANGED parseVars
    /\ UNCHANGED tokVars

\* the caller goes on to the next transaction (not after an abort)
NextTransaction ==
    /\ result.kind \in {"Ok", "Err"}
    /\ calls < MaxCalls
    /\ header' \in Headers
    /\ postings' = <<>>
    /\ balance_status' = NotRun
    /\ result' = NotRun
    /\ UNCHANGED <<rc_heap, calls>>
    /\ UNCHANGED linVars
    /\ UNCHANGED parseVars
    /\ UNCHANGED tokVars

NextBalance ==
    \/ PushPosting
    \/ IntoPostings
    \/ NextTransaction

SpecBalance == InitBalance /\ [][NextBalance]_vars

(***************************************************************************)
(* Account lineage: build_account_lineage as a function of its argument    *)
(***************************************************************************)
SegmentChars == {"a", "b"}

RECURSIVE StringsUpTo(_, _)
StringsUpTo(chars, n) ==
    IF n = 0 THEN {<<>>}
    ELSE LET shorter == StringsUpTo(chars, n - 1)
         IN  shorter \cup {Append(w, c) : w \in shorter, c \in chars}

\* Vec<String> values a caller can pass to RawPosting::new
AccountPaths ==
    UNION { [1..n -> StringsUpTo(SegmentChars, MaxSegLen)] : n \in 0..MaxSegments }

InitLineage ==
    /\ header \in {CHOOSE h \in Headers : TRUE}
    /\ postings = <<>>
    /\ balance_status = NotRun
    /\ result = NotRun
    /\ rc_heap = <<>>
    /\ calls = 0
    /\ sub_accounts \in AccountPaths
    /\ account_lineage = None
    /\ contents = <<>>
    /\ lines_read = 0
    /\ parsed = NotRun
    /\ input = <<>>
    /\ output = NotRun

BuildAccountLineage ==
    /\ account_lineage = None
    /\ account_lineage' = Some(build_account_lineage(sub_accounts))
    /\ UNCHANGED sub_accounts
    /\ UNCHANGED balVars
    /\ UNCHANGED parseVars
    /\ UNCHANGED tokVars

NextLineage == BuildAccountLineage

SpecLineage == InitLineage /\ [][NextLineage]_vars

(***************************************************************************)
(* parser/parse.rs: the combine grammar.                                   *)
(*                                                                         *)
(* A parser is an operator of the input s and a 1-based position i.  Its   *)
(* result is ParseOk(pos, v) (pos is the position after the consumed       *)
(* prefix), ParseErr(pos) (pos is the position the failing primitive       *)
(* stood at: the error is combine's Empty error iff pos is the position    *)
(* the parser started at, and its Consumed error otherwise), or            *)
(* ParsePanic(msg) when a closure of the grammar aborts the program.       *)
(***************************************************************************)
LF == "\n"
CR == "\r"
TAB == "\t"
QUOTE == "\""

DigitChars == <<"0", "1", "2", "3", "4", "5", "6", "7", "8", "9">>
Digits == {DigitChars[k] : k \in 1..10}
Letters ==
    {"a", "b", "c", "d", "e", "f", "g", "h", "i", "j", "k", "l", "m",
     "n", "o", "p", "q", "r", "s", "t", "u", "v", "w", "x", "y", "z",
     "A", "B", "C", "D", "E", "F", "G", "H", "I", "J", "K", "L", "M",
     "N", "O", "P", "Q", "R", "S", "T", "U", "V", "W", "X", "Y", "Z"}

\* char::to_digit(10)
to_digit(c) == (CHOOSE k \in 1..10 : DigitChars[k] = c) - 1

ParseOk(pos, x) == [st |-> "ok", pos |-> pos, v |-> x]
ParseErr(pos) == [st |-> "err", pos |-> pos]
ParsePanic(msg) == [st |-> "panic", msg |-> msg]

\* Q of the parse result r, with r worked out once however often Q reads it
Once(r, Q(_)) == CHOOSE out \in {Q(x) : x \in {r}} : TRUE

\* sequencing: run Q on the result of the parser before it
Then(r, Q(_)) == Once(r, LAMBDA x : IF x.st = "ok" THEN Q(x) ELSE x)

\* combine::or at position i: the second parser runs only after an Empty error
Or(i, r1, r2) ==
    Once(r1, LAMBDA x : IF x.st = "err" /\ x.pos = i THEN r2 ELSE x)

\* combine::try at position i: a failure becomes an Empty error
Try(i, r) == Once(r, LAMBDA x : IF x.st = "err" THEN ParseErr(i) ELSE x)

\* one round of a repetition (many, skip_many, sep_by1, sep_end_by) that
\* stood at position j with the values acc: an Empty error ends the
\* repetition, any other failure is the repetition's failure, a success
\* continues with K
Repeat(r, j, acc, K(_)) ==
    Once(r, LAMBDA x :
        IF x.st = "err" /\ x.pos = j THEN ParseOk(j, acc)
        ELSE IF x.st # "ok" THEN x
        ELSE K(x))

\* combine::optional at position i
Optional(i, r) ==
    Once(r, LAMBDA x :
        IF x.st = "ok" THEN ParseOk(x.pos, Some(x.v))
        ELSE IF x.st = "err" /\ x.pos = i THEN ParseOk(i, None)
        ELSE x)

satisfy(s, i, P(_)) ==
    IF i <= Len(s) /\ P(s[i]) THEN ParseOk(i + 1, s[i]) ELSE ParseErr(i)

char(s, i, c) ==
    IF i <= Len(s) /\ s[i] = c THEN ParseOk(i + 1, c) ELSE ParseErr(i)

\* many::<String, _>(satisfy(P))
many_satisfy(s, i, P(_)) ==
    LET RECURSIVE run(_)
        run(j) == IF j <= Len(s) /\ P(s[j]) THEN run(j + 1) ELSE j
        end == run(i)
    IN  ParseOk(end, SubSeq(s, i, end - 1))

\* many1::<String, _>(satisfy(P))
many1_satisfy(s, i, P(_)) ==
    LET r == many_satisfy(s, i, P)
    IN  IF r.pos = i THEN ParseErr(i) ELSE r

two_digits_to_u32(x, y) == to_digit(x) * 10 + to_digit(y)

IsWhitespaceChar(c) == c = " " \/ c = TAB
IsDigit(c) == c \in Digits

whitespace(s, i) == many1_satisfy(s, i, IsWhitespaceChar)

\* line_ending without its crlf() alternative
line_ending_newline_only(s, i) ==
    Then(char(s, i, LF), LAMBDA a : ParseOk(a.pos, <<LF>>))

\* crlf().or(newline()); crlf is '\r' followed by '\n' and yields '\n'
line_ending(s, i) ==
    LET crlf == Then(char(s, i, CR), LAMBDA a : char(s, a.pos, LF))
    IN  Then(Or(i, crlf, char(s, i, LF)), LAMBDA a : ParseOk(a.pos, <<LF>>))

two_digits(s, i) ==
    Then(satisfy(s, i, IsDigit), LAMBDA x :
    Then(satisfy(s, x.pos, IsDigit), LAMBDA y :
    ParseOk(y.pos, two_digits_to_u32(x.v, y.v))))

\* str::parse::<i32>() of a string of digits, saturated above chrono's
\* largest year so that the model stays within small integers
MaxChronoYear == 262143

parse_year(digits) ==
    LET RECURSIVE val(_)
        val(n) ==
            IF n = 0 THEN 0
            ELSE LET hi == val(n - 1)
                 IN  IF hi > MaxChronoYear THEN hi
                     ELSE hi * 10 + to_digit(digits[n])
    IN  val(Len(digits))

IsLeapYear(y) == (y % 4 = 0 /\ y % 100 # 0) \/ y % 400 = 0

DaysInMonth(y, m) ==
    IF m \in {4, 6, 9, 11} THEN 30
    ELSE IF m = 2 THEN (IF IsLeapYear(y) THEN 29 ELSE 28)
    ELSE 31

\* Local.ymd(year.parse().unwrap(), month, day): both unwraps abort
ymd(year, month, day) ==
    IF Len(year) = 0 THEN ParsePanic("Result::unwrap on an Err value")
    ELSE LET y == parse_year(year)
         IN  IF y > MaxChronoYear \/ month \notin 1..12
                \/ day \notin 1..DaysInMonth(y, month)
             THEN ParsePanic("invalid or out-of-range date")
             ELSE [st |-> "ok", v |-> [y |-> y, m |-> month, d |-> day]]

\* the closure of date's map: its value, or the abort of the program
MapDate(dt, pos) == IF dt.st = "panic" THEN dt ELSE ParseOk(pos, dt.v)

date(s, i) ==
    Then(many_satisfy(s, i, IsDigit), LAMBDA year :
    Then(char(s, year.pos, "-"), LAMBDA d1 :
    Then(two_digits(s, d1.pos), LAMBDA month :
    Then(char(s, month.pos, "-"), LAMBDA d2 :
    Then(two_digits(s, d2.pos), LAMBDA day :
    MapDate(ymd(year.v, month.v, day.v), day.pos))))))

\* String::replace(",", "")
RemoveCommas(str) == LET NotComma(c) == c # "," IN SelectSeq(str, NotComma)

\* d128::from_str on the texts the grammar hands it (an optional '-', then
\* digits, '.' and, were they not removed, ','): a number is read when the
\* body is made of digits and at most one '.', with at least one digit;
\* anything else yields NaN (from_str itself never returns Err).
d128_from_str(str) ==
    LET neg == Len(str) > 0 /\ str[1] = "-"
        body == IF neg THEN Tail(str) ELSE str
        dots == {k \in 1..Len(body) : body[k] = "."}
        others == {k \in 1..Len(body) : body[k] \notin Digits \cup {"."}}
        digs == SelectSeq(body, IsDigit)
        RECURSIVE val(_)
        val(n) == IF n = 0 THEN 0 ELSE val(n - 1) * 10 + to_digit(digs[n])
    IN  IF Len(digs) = 0 \/ Cardinality(dots) > 1 \/ others # {} THEN NaN
        ELSE [nan |-> FALSE,
              neg |-> neg,
              coefficient |-> val(Len(digs)),
              exponent |-> IF dots = {} THEN 0
                           ELSE 0 - (Len(body) - (CHOOSE k \in dots : TRUE))]

IsQuantityChar(c) == c \in Digits \/ c = "," \/ c = "."

\* quantity without the removal of the ',' characters
quantity_keep_commas(s, i) ==
    Then(Optional(i, char(s, i, "-")), LAMBDA x :
    LET sign == IF x.v.some THEN <<"-">> ELSE <<>>
    IN  Then(many1_satisfy(s, x.pos, IsQuantityChar), LAMBDA numbers :
        ParseOk(numbers.pos, d128_from_str(sign \o numbers.v))))

quantity(s, i) ==
    Then(Optional(i, char(s, i, "-")), LAMBDA x :
    LET sign == IF x.v.some THEN <<"-">> ELSE <<>>
    IN  Then(many1_satisfy(s, x.pos, IsQuantityChar), LAMBDA numbers :
        LET qty == RemoveCommas(sign \o numbers.v)
        IN  ParseOk(numbers.pos, d128_from_str(qty))))

IsQuotedSymbolChar(c) == c # QUOTE /\ c # CR /\ c # LF

quoted_symbol(s, i) ==
    Then(char(s, i, QUOTE), LAMBDA q1 :
    Then(many1_satisfy(s, q1.pos, IsQuotedSymbolChar), LAMBDA sym :
    Then(char(s, sym.pos, QUOTE), LAMBDA q2 :
    ParseOk(q2.pos, Symbol_new(sym.v, "Quoted")))))

IsUnquotedSymbolChar(c) ==
    c \notin (Digits \cup {"-", ";", " ", QUOTE, TAB, CR, LF})

unquoted_symbol(s, i) ==
    Then(many1_satisfy(s, i, IsUnquotedSymbolChar), LAMBDA sym :
    ParseOk(sym.pos, Symbol_new(sym.v, "Unquoted")))

symbol(s, i) == Or(i, quoted_symbol(s, i), unquoted_symbol(s, i))

SpacingOf(opt_whitespace) ==
    IF opt_whitespace.some THEN "Space" ELSE "NoSpace"

amount_symbol_then_quantity(s, i) ==
    Then(symbol(s, i), LAMBDA sym :
    Then(Optional(sym.pos, whitespace(s, sym.pos)), LAMBDA ws :
    Then(quantity(s, ws.pos), LAMBDA qty :
    ParseOk(qty.pos,
            Amount_new(qty.v, sym.v,
                       RenderOptions_new("Left", SpacingOf(ws.v)))))))

amount_quantity_then_symbol(s, i) ==
    Then(quantity(s, i), LAMBDA qty :
    Then(Optional(qty.pos, whitespace(s, qty.pos)), LAMBDA ws :
    Then(symbol(s, ws.pos), LAMBDA sym :
    ParseOk(sym.pos,
            Amount_new(qty.v, sym.v,
                       RenderOptions_new("Right", SpacingOf(ws.v)))))))

amount(s, i) ==
    Or(i, amount_symbol_then_quantity(s, i), amount_quantity_then_symbol(s, i))

\* amount_or_inferred with the source tag Provided in both arms of the match
amount_or_inferred_always_provided(s, i) ==
    Then(Optional(i, amount(s, i)), LAMBDA opt_amount :
    ParseOk(opt_amount.pos, [source |-> "Provided", amount |-> opt_amount.v]))

amount_or_inferred(s, i) ==
    Then(Optional(i, amount(s, i)), LAMBDA opt_amount :
    ParseOk(opt_amount.pos,
            [source |-> IF opt_amount.v.some THEN "Provided" ELSE "Inferred",
             amount |-> opt_amount.v]))

Price_new(dt, sym, amt) == [date |-> dt, symbol |-> sym, amount |-> amt]

price(s, i) ==
    Then(char(s, i, "P"), LAMBDA p :
    Then(whitespace(s, p.pos), LAMBDA w1 :
    Then(date(s, w1.pos), LAMBDA dt :
    Then(whitespace(s, dt.pos), LAMBDA w2 :
    Then(symbol(s, w2.pos), LAMBDA sym :
    Then(whitespace(s, sym.pos), LAMBDA w3 :
    Then(amount(s, w3.pos), LAMBDA amt :
    ParseOk(amt.pos, Price_new(dt.v, sym.v, amt.v)))))))))

\* price_db with sep_by in place of sep_end_by: every separator must be
\* followed by a price
price_db_sep_by(s, i) ==
    LET RECURSIVE rest(_, _)
        rest(j, acc) ==
            Repeat(line_ending(s, j), j, acc, LAMBDA sep :
            Then(price(s, sep.pos), LAMBDA p :
            rest(p.pos, Append(acc, p.v))))
    IN  Repeat(price(s, i), i, <<>>, LAMBDA first :
        rest(first.pos, <<first.v>>))

\* sep_end_by(parser(price), parser(line_ending)): a price, then rounds of
\* a separator followed by a price; the list ends where the separator or
\* the price after it fails without consuming
price_db(s, i) ==
    LET RECURSIVE rest(_, _)
        rest(j, acc) ==
            Repeat(line_ending(s, j), j, acc, LAMBDA sep :
            Repeat(price(s, sep.pos), sep.pos, acc, LAMBDA p :
            rest(p.pos, Append(acc, p.v))))
    IN  Repeat(price(s, i), i, <<>>, LAMBDA first :
        rest(first.pos, <<first.v>>))

status(s, i) ==
    Or(i, Then(char(s, i, "*"), LAMBDA a : ParseOk(a.pos, "Cleared")),
          Then(char(s, i, "!"), LAMBDA a : ParseOk(a.pos, "Uncleared")))

IsCodeChar(c) == c # CR /\ c # LF /\ c # ")"

code(s, i) ==
    Then(char(s, i, "("), LAMBDA open :
    Then(many_satisfy(s, open.pos, IsCodeChar), LAMBDA body :
    Then(char(s, body.pos, ")"), LAMBDA close :
    ParseOk(close.pos, body.v))))

IsPayeeChar(c) == c # ";" /\ c # LF /\ c # CR

payee(s, i) == many1_satisfy(s, i, IsPayeeChar)

IsCommentChar(c) == c # CR /\ c # LF

comment(s, i) ==
    Then(char(s, i, ";"), LAMBDA semi :
    many_satisfy(s, semi.pos, IsCommentChar))

\* many(parser(whitespace)): whitespace takes the whole run, so the
\* repetition ends after at most one round
many_whitespace(s, i) ==
    LET RECURSIVE run(_)
        run(j) == Repeat(whitespace(s, j), j, <<>>, LAMBDA w : run(w.pos))
    IN  run(i)

many1_whitespace(s, i) ==
    Then(whitespace(s, i), LAMBDA w : many_whitespace(s, w.pos))

comment_line(s, i) ==
    Then(many_whitespace(s, i), LAMBDA ws :
    Then(comment(s, ws.pos), LAMBDA c :
    Then(line_ending(s, c.pos), LAMBDA le :
    ParseOk(le.pos, c.v))))

header_parser(s, i) ==
    Then(date(s, i), LAMBDA dt :
    Then(whitespace(s, dt.pos), LAMBDA w1 :
    Then(status(s, w1.pos), LAMBDA st :
    Then(whitespace(s, st.pos), LAMBDA w2 :
    Then(Optional(w2.pos,
                  Then(code(s, w2.pos), LAMBDA c :
                  Then(whitespace(s, c.pos), LAMBDA w3 :
                  ParseOk(w3.pos, c.v)))), LAMBDA cd :
    Then(payee(s, cd.pos), LAMBDA py :
    Then(Optional(py.pos, comment(s, py.pos)), LAMBDA cm :
    ParseOk(cm.pos, Header_new(dt.v, st.v, cd.v, py.v, cm.v)))))))))

IsAlphaNum(c) == c \in Letters \/ c \in Digits

sub_account(s, i) == many1_satisfy(s, i, IsAlphaNum)

\* sep_by1(parser(sub_account), char(':'))
account(s, i) ==
    LET RECURSIVE rest(_, _)
        rest(j, acc) ==
            Repeat(char(s, j, ":"), j, acc, LAMBDA sep :
            Then(sub_account(s, sep.pos), LAMBDA sub :
            rest(sub.pos, Append(acc, sub.v))))
    IN  Then(sub_account(s, i), LAMBDA first : rest(first.pos, <<first.v>>))

posting(s, i) ==
    Then(account(s, i), LAMBDA acct :
    Then(Optional(acct.pos, whitespace(s, acct.pos)), LAMBDA w1 :
    Then(amount_or_inferred(s, w1.pos), LAMBDA amt :
    Then(Optional(amt.pos, whitespace(s, amt.pos)), LAMBDA w2 :
    Then(Optional(w2.pos, comment(s, w2.pos)), LAMBDA opt_comment :
    ParseOk(opt_comment.pos,
            RawPosting_new(acct.v, amt.v.amount, amt.v.source,
                           opt_comment.v)))))))

posting_line(s, i) ==
    Then(many1_whitespace(s, i), LAMBDA ws :
    Then(posting(s, ws.pos), LAMBDA p :
    Then(line_ending(s, p.pos), LAMBDA le :
    ParseOk(le.pos, p.v))))

Transaction(hdr, raw_postings) ==
    [tag |-> "Transaction", header |-> hdr, postings |-> raw_postings]

PriceEntry(p) == [tag |-> "Price", price |-> p]

\* transaction_line without its comment_line alternative
transaction_line_posting_only(s, i) ==
    Try(i, Then(posting_line(s, i), LAMBDA p : ParseOk(p.pos, Some(p.v))))

\* try(comment_line.map(|_| None)).or(try(posting_line.map(|p| Some(p))))
transaction_line(s, i) ==
    Or(i, Try(i, Then(comment_line(s, i), LAMBDA c : ParseOk(c.pos, None))),
          Try(i, Then(posting_line(s, i), LAMBDA p : ParseOk(p.pos, Some(p.v)))))

transaction(s, i) ==
    LET RECURSIVE lines(_, _)
        \* the rounds after the first; filter_map keeps the Some(posting)s
        lines(j, acc) ==
            Repeat(transaction_line(s, j), j, acc, LAMBDA l :
            lines(l.pos, IF l.v.some THEN Append(acc, l.v.v) ELSE acc))
    IN  Then(header_parser(s, i), LAMBDA hdr :
        Then(line_ending(s, hdr.pos), LAMBDA le :
        Then(transaction_line(s, le.pos), LAMBDA first :
        Then(lines(first.pos, IF first.v.some THEN <<first.v.v>> ELSE <<>>),
             LAMBDA all :
        ParseOk(all.pos, Transaction(hdr.v, all.v))))))

\* one round of skip_comment_or_empty_lines without its optional comment
comment_or_empty_line_no_comment(s, i) ==
    Then(many_whitespace(s, i), LAMBDA ws : line_ending(s, ws.pos))

\* one round of skip_comment_or_empty_lines with an optional line ending
comment_or_empty_line_optional_ending(s, i) ==
    Then(many_whitespace(s, i), LAMBDA ws :
    Then(Optional(ws.pos, comment(s, ws.pos)), LAMBDA c :
    Optional(c.pos, line_ending(s, c.pos))))

\* one round of skip_comment_or_empty_lines
comment_or_empty_line(s, i) ==
    Then(many_whitespace(s, i), LAMBDA ws :
    Then(Optional(ws.pos, comment(s, ws.pos)), LAMBDA c :
    line_ending(s, c.pos)))

skip_comment_or_empty_lines(s, i) ==
    LET RECURSIVE run(_)
        run(j) ==
            Repeat(comment_or_empty_line(s, j), j, <<>>, LAMBDA l : run(l.pos))
    IN  run(i)

\* ledger_entry without the skipping of the lines after the entry
ledger_entry_no_skip(s, i) ==
    Or(i, transaction(s, i),
          Then(price(s, i), LAMBDA p : ParseOk(p.pos, PriceEntry(p.v))))

\* transaction.or(price.map(ParseTree::Price)).skip(skip_comment_or_empty_lines)
ledger_entry(s, i) ==
    Then(Or(i, transaction(s, i),
               Then(price(s, i), LAMBDA p : ParseOk(p.pos, PriceEntry(p.v)))),
         LAMBDA e :
    Then(skip_comment_or_empty_lines(s, e.pos), LAMBDA sk :
    ParseOk(sk.pos, e.v)))

ledger(s, i) ==
    LET RECURSIVE entries(_, _)
        entries(j, acc) ==
            Repeat(ledger_entry(s, j), j, acc, LAMBDA e :
            entries(e.pos, Append(acc, e.v)))
    IN  Then(skip_comment_or_empty_lines(s, i), LAMBDA sk :
        entries(sk.pos, <<>>))

(***************************************************************************)
(* parser/chomp.rs: the value parsers of the chomp grammar.                *)
(*                                                                         *)
(* The input is a complete buffer (chomp::parse_only).  chomp's `option`   *)
(* yields its default on the original input whenever its parser fails.    *)
(* Names carry the prefix chomp_ where parse.rs has a function of the      *)
(* same name.                                                              *)
(***************************************************************************)
\* chomp::take_while1: the longest prefix whose bytes satisfy P, an error
\* when it is empty
take_while1(s, i, P(_)) ==
    LET r == many_satisfy(s, i, P)
    IN  IF r.pos = i THEN ParseErr(i) ELSE r

\* chomp::option(p, default) at position i
chomp_option(i, r, default) == IF r.st = "err" THEN ParseOk(i, default) ELSE r

\* chomp::count(i, n, digit): exactly n digits
chomp_count_digits(s, i, n) ==
    LET RECURSIVE run(_, _)
        run(j, k) ==
            IF k = 0 THEN ParseOk(j, SubSeq(s, i, j - 1))
            ELSE IF j <= Len(s) /\ s[j] \in Digits THEN run(j + 1, k - 1)
            ELSE ParseErr(j)
    IN  run(i, n)

\* slice.iter().fold(0, |acc, &d| acc * 10 + (d - '0'))
to_i32(slice) ==
    LET RECURSIVE fold(_)
        fold(n) == IF n = 0 THEN 0 ELSE fold(n - 1) * 10 + to_digit(slice[n])
    IN  fold(Len(slice))

to_u32(slice) == to_i32(slice)

make_quantity(sign, number) ==
    LET qty == (IF sign = "-" THEN <<"-">> ELSE <<>>) \o number
    IN  d128_from_str(RemoveCommas(qty))

is_whitespace_char(c) == c = TAB \/ c = " "
is_digit_char(c) == c \in Digits

\* c == b'\r' && c == b'\n'
is_newline_char(c) == c = CR /\ c = LF

is_unquoted_symbol_char(c) ==
    /\ c # "-" /\ c # ";" /\ c # QUOTE /\ ~is_newline_char(c)
    /\ ~is_digit_char(c) /\ ~is_whitespace_char(c)

is_quantity_char(c) == is_digit_char(c) \/ c = "." \/ c = ","

chomp_year(s, i) ==
    Then(chomp_count_digits(s, i, 4), LAMBDA r : ParseOk(r.pos, to_i32(r.v)))

chomp_month(s, i) ==
    Then(chomp_count_digits(s, i, 2), LAMBDA r : ParseOk(r.pos, to_u32(r.v)))

chomp_day(s, i) ==
    Then(chomp_count_digits(s, i, 2), LAMBDA r : ParseOk(r.pos, to_u32(r.v)))

\* Local.ymd(year, month, day) aborts on a date that does not exist
chomp_ymd(y, month, day) ==
    IF month \notin 1..12 \/ day \notin 1..DaysInMonth(y, month)
    THEN ParsePanic("invalid or out-of-range date")
    ELSE [st |-> "ok", v |-> [y |-> y, m |-> month, d |-> day]]

chomp_date(s, i) ==
    Then(chomp_year(s, i), LAMBDA year :
    Then(char(s, year.pos, "-"), LAMBDA d1 :
    Then(chomp_month(s, d1.pos), LAMBDA month :
    Then(char(s, month.pos, "-"), LAMBDA d2 :
    Then(chomp_day(s, d2.pos), LAMBDA day :
    MapDate(chomp_ymd(year.v, month.v, day.v), day.pos))))))

chomp_unquoted_symbol(s, i) ==
    Then(take_while1(s, i, is_unquoted_symbol_char), LAMBDA b :
    ParseOk(b.pos, Symbol_new(b.v, "Unquoted")))

chomp_quantity(s, i) ==
    Then(chomp_option(i, char(s, i, "-"), "+"), LAMBDA sign :
    Then(take_while1(s, sign.pos, is_quantity_char), LAMBDA number :
    ParseOk(number.pos, make_quantity(sign.v, number.v))))

(***************************************************************************)
(* File contents handed to parse_ledger / parse_pricedb                    *)
(***************************************************************************)
\* a transaction header: '2016-06-07 * p\n'
HeaderLine ==
    <<"2", "0", "1", "6", "-", "0", "6", "-", "0", "7", " ", "*", " ",
      "p", LF>>

\* a posting with an amount: '\tA:B  $1.50\n'
PostingLine ==
    <<TAB, "A", ":", "B", " ", " ", "$", "1", ".", "5", "0", LF>>

\* a posting whose amount is to be inferred: ' C\n'
PostingNoAmountLine ==
    <<" ", "C", LF>>

\* a comment line: '; c\n'
CommentLine ==
    <<";", " ", "c", LF>>

\* an empty line: '\n'
BlankLine ==
    <<LF>>

\* a blank line with a Windows line ending: ' \r\n'
BlankLineWindows ==
    <<" ", CR, LF>>

\* a price record: 'P 2016-06-07 A $1\n'
PriceLine ==
    <<"P", " ", "2", "0", "1", "6", "-", "0", "6", "-", "0", "7", " ",
      "A", " ", "$", "1", LF>>

\* a price record without a line ending: 'P 2016-06-07 "M" 2 $'
PriceNoLineEnding ==
    <<"P", " ", "2", "0", "1", "6", "-", "0", "6", "-", "0", "7", " ",
      QUOTE, "M", QUOTE, " ", "2", " ", "$">>

\* a line no parser of the grammar starts on: 'x\n'
UnknownLine ==
    <<"x", LF>>

\* a line that stops matching inside a date: '20x\n'
BadDateLine ==
    <<"2", "0", "x", LF>>

FileLines ==
    {HeaderLine, PostingLine, PostingNoAmountLine, CommentLine,
     BlankLine, BlankLineWindows, PriceLine, PriceNoLineEnding,
     UnknownLine, BadDateLine}

(***************************************************************************)
(* Whole-file parses: actions                                              *)
(***************************************************************************)
InitParse ==
    /\ header \in {CHOOSE h \in Headers : TRUE}
    /\ postings = <<>>
    /\ balance_status = NotRun
    /\ result = NotRun
    /\ rc_heap = <<>>
    /\ calls = 0
    /\ sub_accounts = <<>>
    /\ account_lineage = None
    /\ contents = <<>>
    /\ lines_read = 0
    /\ parsed = NotRun
    /\ input = <<>>
    /\ output = NotRun

\* the file grows by one line (the contents read by read_to_string)
AppendLine ==
    /\ parsed = NotRun
    /\ lines_read < MaxLines
    /\ \E l \in FileLines : contents' = contents \o l
    /\ lines_read' = lines_read + 1
    /\ UNCHANGED parsed
    /\ UNCHANGED balVars
    /\ UNCHANGED linVars
    /\ UNCHANGED tokVars

\* what the two entry points do with the ParseResult: the value is
\* returned and the remaining input dropped, an error aborts (panic!)
Parsed(fn, r) ==
    IF r.st = "ok" THEN [kind |-> "Ok", fn |-> fn, entries |-> r.v]
    ELSE IF r.st = "err" THEN [kind |-> "Panic", fn |-> fn, why |-> "ParseError"]
    ELSE [kind |-> "Panic", fn |-> fn, why |-> r.msg]

ParseLedger ==
    /\ parsed = NotRun
    /\ parsed' = Parsed("parse_ledger", ledger(contents, 1))
    /\ UNCHANGED <<contents, lines_read>>
    /\ UNCHANGED balVars
    /\ UNCHANGED linVars
    /\ UNCHANGED tokVars

ParsePricedb ==
    /\ parsed = NotRun
    /\ parsed' = Parsed("parse_pricedb", price_db(contents, 1))
    /\ UNCHANGED <<contents, lines_read>>
    /\ UNCHANGED balVars
    /\ UNCHANGED linVars
    /\ UNCHANGED tokVars

NextParse ==
    \/ AppendLine
    \/ ParseLedger
    \/ ParsePricedb

SpecParse == InitParse /\ [][NextParse]_vars

(***************************************************************************)
(* parse_ledger run one round of a repetition at a time.  `parsed` holds   *)
(* the place of the run: the repetition it stands in (the skip_many before *)
(* the entries, the many of entries, the skip_many after an entry), the    *)
(* input position and the entries collected so far.                        *)
(***************************************************************************)
Running(loop, pos, entries) ==
    [kind |-> "Running", fn |-> "parse_ledger", loop |-> loop, pos |-> pos,
     entries |-> entries]

\* the round of skip_many at the place of the run:
\* skip_many(whitespace).skip(optional(comment)).skip(line_ending)
SkipRound == comment_or_empty_line(contents, parsed.pos)

\* the round of many at the place of the run:
\* transaction.or(price.map(ParseTree::Price))
EntryRound ==
    Or(parsed.pos, transaction(contents, parsed.pos),
       Then(price(contents, parsed.pos),
            LAMBDA p : ParseOk(p.pos, PriceEntry(p.v))))

\* parser(ledger).parse(&contents[..]) is entered
LedgerStart ==
    /\ parsed = NotRun
    /\ parsed' = Running("leading", 1, <<>>)
    /\ UNCHANGED <<contents, lines_read, balVars, linVars, tokVars>>

\* a round of skip_many matches a comment or blank line
SkipLine ==
    /\ parsed # NotRun
    /\ parsed.kind = "Running"
    /\ parsed.loop \in {"leading", "trailing"}
    /\ SkipRound.st = "ok"
    /\ parsed' = [parsed EXCEPT !.pos = SkipRound.pos]
    /\ UNCHANGED <<contents, lines_read, balVars, linVars, tokVars>>

\* a round of skip_many fails without consuming: the skipping is over and
\* the next entry is tried
SkipEnd ==
    /\ parsed # NotRun
    /\ parsed.kind = "Running"
    /\ parsed.loop \in {"leading", "trailing"}
    /\ SkipRound.st = "err"
    /\ SkipRound.pos = parsed.pos
    /\ parsed' = [parsed EXCEPT !.loop = "entries"]
    /\ UNCHANGED <<contents, lines_read, balVars, linVars, tokVars>>

\* a round of many matches a transaction or a price; the skip_many after
\* the entry follows
Entry ==
    /\ parsed # NotRun
    /\ parsed.kind = "Running"
    /\ parsed.loop = "entries"
    /\ EntryRound.st = "ok"
    /\ parsed' = Running("trailing", EntryRound.pos,
                         Append(parsed.entries, EntryRound.v))
    /\ UNCHANGED <<contents, lines_read, balVars, linVars, tokVars>>

\* a round of many fails without consuming: the list is complete
EntriesEnd ==
    /\ parsed # NotRun
    /\ parsed.kind = "Running"
    /\ parsed.loop = "entries"
    /\ EntryRound.st = "err"
    /\ EntryRound.pos = parsed.pos
    /\ parsed' = Parsed("parse_ledger", ParseOk(parsed.pos, parsed.entries))
    /\ UNCHANGED <<contents, lines_read, balVars, linVars, tokVars>>

\* a round fails after consuming, or aborts: so does the parse
Abort ==
    /\ parsed # NotRun
    /\ parsed.kind = "Running"
    /\ \/ /\ parsed.loop = "entries"
          /\ EntryRound.st # "ok"
          /\ ~(EntryRound.st = "err" /\ EntryRound.pos = parsed.pos)
          /\ parsed' = Parsed("parse_ledger", EntryRound)
       \/ /\ parsed.loop \in {"leading", "trailing"}
          /\ SkipRound.st # "ok"
          /\ ~(SkipRound.st = "err" /\ SkipRound.pos = parsed.pos)
          /\ parsed' = Parsed("parse_ledger", SkipRound)
    /\ UNCHANGED <<contents, lines_read, balVars, linVars, tokVars>>

NextLedgerRun ==
    \/ AppendLine
    \/ LedgerStart
    \/ SkipLine
    \/ SkipEnd
    \/ Entry
    \/ EntriesEnd
    \/ Abort

\* the parse is one sequential computation: a step that can be taken is
\* taken
SpecLedgerRun == InitParse /\ [][NextLedgerRun]_vars /\ WF_vars(NextLedgerRun)

(***************************************************************************)
(* The transaction parser applied to a buffer of lines                     *)
(***************************************************************************)
\* an indented comment line: '  ;n\n'
IndentedCommentLine ==
    <<" ", " ", ";", "n", LF>>

\* a posting with an amount and a comment: ' D 2 a ;n\n'
PostingWithCommentLine ==
    <<" ", "D", " ", "2", " ", "a", " ", ";", "n", LF>>

TransactionLines ==
    {HeaderLine, PostingLine, PostingNoAmountLine, PostingWithCommentLine,
     CommentLine, IndentedCommentLine, BlankLine, BlankLineWindows,
     PriceLine, UnknownLine}

\* the buffer grows by one line
AppendTransactionLine ==
    /\ output = NotRun
    /\ lines_read < MaxLines
    /\ \E l \in TransactionLines : contents' = contents \o l
    /\ lines_read' = lines_read + 1
    /\ UNCHANGED <<parsed, input, output>>
    /\ UNCHANGED balVars
    /\ UNCHANGED linVars

\* parser(transaction).parse(&contents)
ParseTransaction ==
    /\ output = NotRun
    /\ output' = [kind |-> "Ran", fn |-> "transaction", r |-> transaction(contents, 1)]
    /\ UNCHANGED <<contents, lines_read, parsed, input>>
    /\ UNCHANGED balVars
    /\ UNCHANGED linVars

\* parser(skip_comment_or_empty_lines).parse(&contents)
SkipCommentOrEmptyLines ==
    /\ output = NotRun
    /\ output' = [kind |-> "Ran", fn |-> "skip_comment_or_empty_lines",
                  r |-> skip_comment_or_empty_lines(contents, 1)]
    /\ UNCHANGED <<contents, lines_read, parsed, input>>
    /\ UNCHANGED balVars
    /\ UNCHANGED linVars

NextTransactionParse ==
    \/ AppendTransactionLine
    \/ ParseTransaction
    \/ SkipCommentOrEmptyLines

SpecTransaction == InitParse /\ [][NextTransactionParse]_vars

(***************************************************************************)
(* Value parsers applied to one text: symbols, quantities, amounts         *)
(***************************************************************************)
TokenChars == {"$", "a", "1", ".", ",", "-", " ", TAB, ";", QUOTE, CR, LF}

\* symbols, separating whitespace and decimal literals as they are written
WrittenSymbols == {<<"$">>, <<"a", "$">>, <<QUOTE, "a", " ", "1", QUOTE>>}
WrittenGaps == {<<>>, <<" ">>, <<TAB>>, <<" ", TAB>>}
WrittenQuantities ==
    {<<"1">>, <<"-", "1">>, <<"1", ".", "5">>, <<"1", ",", "1", "1">>,
     <<".", "5">>, <<",", "1">>, <<"1", ".", "1", ".", "1">>, <<".">>}

AmountTexts ==
    {sy \o g \o q : sy \in WrittenSymbols, g \in WrittenGaps, q \in WrittenQuantities}
    \cup {q \o g \o sy : sy \in WrittenSymbols, g \in WrittenGaps, q \in WrittenQuantities}
    \cup WrittenQuantities

\* postings as they are written: an account path, then optionally an
\* amount and a comment, with or without whitespace between them
PostingTexts ==
    LET accounts == {<<"a">>, <<"a", ":", "1">>}
        gaps == {<<>>, <<" ", " ">>}
        amounts == {<<>>, <<"$", "1">>, <<"1", " ", "$">>, <<QUOTE, "a", " ", "1", QUOTE, "1">>,
                    <<".", "5">>, <<"$", "1", ".", "1", ".", "1">>, <<"-">>, <<"1">>}
        tails == {<<>>, <<";", "a">>, <<LF>>, <<CR, LF>>}
    IN  {ac \o g1 \o am \o g2 \o tl :
            ac \in accounts, g1 \in gaps, am \in amounts, g2 \in gaps, tl \in tails}

TokenTexts == StringsUpTo(TokenChars, MaxTokenLen) \cup AmountTexts \cup PostingTexts

InitToken ==
    /\ header \in {CHOOSE h \in Headers : TRUE}
    /\ postings = <<>>
    /\ balance_status = NotRun
    /\ result = NotRun
    /\ rc_heap = <<>>
    /\ calls = 0
    /\ sub_accounts = <<>>
    /\ account_lineage = None
    /\ contents = <<>>
    /\ lines_read = 0
    /\ parsed = NotRun
    /\ input \in TokenTexts
    /\ output = NotRun

\* parser(f).parse(input): the parser f of the grammar run on the text
Ran_(fn, r) == [kind |-> "Ran", fn |-> fn, r |-> r]

UnquotedSymbol ==
    /\ output = NotRun
    /\ output' = Ran_("unquoted_symbol", unquoted_symbol(input, 1))
    /\ UNCHANGED <<input, balVars, linVars, parseVars>>

ChompUnquotedSymbol ==
    /\ output = NotRun
    /\ output' = Ran_("chomp_unquoted_symbol", chomp_unquoted_symbol(input, 1))
    /\ UNCHANGED <<input, balVars, linVars, parseVars>>

ParseSymbol ==
    /\ output = NotRun
    /\ output' = Ran_("symbol", symbol(input, 1))
    /\ UNCHANGED <<input, balVars, linVars, parseVars>>

ParseQuantity ==
    /\ output = NotRun
    /\ output' = Ran_("quantity", quantity(input, 1))
    /\ UNCHANGED <<input, balVars, linVars, parseVars>>

ChompQuantity ==
    /\ output = NotRun
    /\ output' = Ran_("chomp_quantity", chomp_quantity(input, 1))
    /\ UNCHANGED <<input, balVars, linVars, parseVars>>

ParseAmount ==
    /\ output = NotRun
    /\ output' = Ran_("amount", amount(input, 1))
    /\ UNCHANGED <<input, balVars, linVars, parseVars>>

ParseTransactionLine ==
    /\ output = NotRun
    /\ output' = Ran_("transaction_line", transaction_line(input, 1))
    /\ UNCHANGED <<input, balVars, linVars, parseVars>>

ParseLedgerEntry ==
    /\ output = NotRun
    /\ output' = Ran_("ledger_entry", ledger_entry(input, 1))
    /\ UNCHANGED <<input, balVars, linVars, parseVars>>

ParsePosting ==
    /\ output = NotRun
    /\ output' = Ran_("posting", posting(input, 1))
    /\ UNCHANGED <<input, balVars, linVars, parseVars>>

NextToken ==
    \/ UnquotedSymbol
    \/ ChompUnquotedSymbol
    \/ ParseSymbol
    \/ ParseQuantity
    \/ ChompQuantity
    \/ ParseAmount
    \/ ParseTransactionLine
    \/ ParseLedgerEntry
    \/ ParsePosting

SpecToken == InitToken /\ [][NextToken]_vars

(***************************************************************************)
(* The date parsers applied to one text                                    *)
(***************************************************************************)
\* texts shaped like a date: a year of up to MaxYearDigits digits, a month
\* and a day of one or two digits, each '-' present or not, and the text
\* ending there or going on with a space
DateTexts ==
    LET years == StringsUpTo({"0", "2"}, MaxYearDigits)
        months == {<<"0", "6">>, <<"0", "2">>, <<"1", "3">>, <<"0", "0">>, <<"6">>}
        days == {<<"0", "7">>, <<"2", "9">>, <<"3", "1">>, <<"0", "0">>, <<"7">>}
        dashes == {<<"-">>, <<>>}
        tails == {<<>>, <<" ">>}
    IN  {y \o d1 \o m \o d2 \o d \o t :
            y \in years, d1 \in dashes, m \in months, d2 \in dashes,
            d \in days, t \in tails}

InitDate ==
    /\ header \in {CHOOSE h \in Headers : TRUE}
    /\ postings = <<>>
    /\ balance_status = NotRun
    /\ result = NotRun
    /\ rc_heap = <<>>
    /\ calls = 0
    /\ sub_accounts = <<>>
    /\ account_lineage = None
    /\ contents = <<>>
    /\ lines_read = 0
    /\ parsed = NotRun
    /\ input \in DateTexts
    /\ output = NotRun

ParseDate ==
    /\ output = NotRun
    /\ output' = Ran_("date", date(input, 1))
    /\ UNCHANGED <<input, balVars, linVars, parseVars>>

ChompDate ==
    /\ output = NotRun
    /\ output' = Ran_("chomp_date", chomp_date(input, 1))
    /\ UNCHANGED <<input, balVars, linVars, parseVars>>

NextDate ==
    \/ ParseDate
    \/ ChompDate

SpecDate == InitDate /\ [][NextDate]_vars

(***************************************************************************)
(* core/amount.rs, core/symbol.rs: Display, and the amount parser run on   *)
(* the formatted text                                                      *)
(***************************************************************************)
\* the decimal digits of a natural number
DigitsOf(n) ==
    LET RECURSIVE digs(_)
        digs(k) == IF k < 10 THEN <<DigitChars[k + 1]>>
                   ELSE Append(digs(k \div 10), DigitChars[(k % 10) + 1])
    IN  digs(n)

\* Display of d128 (the quantity in write!): the number's coefficient and
\* exponent written without exponent when the exponent is at most 0 and
\* the adjusted exponent at least -6, in scientific notation otherwise
d128_fmt(q) ==
    IF q.nan THEN <<"N", "a", "N">>
    ELSE LET Zeros(n) == [k \in 1..n |-> "0"]
             c == DigitsOf(q.coefficient)
             e == q.exponent
             adjusted == e + Len(c) - 1
             sign == IF q.neg THEN <<"-">> ELSE <<>>
             plain ==
                 IF e = 0 THEN c
                 ELSE IF Len(c) > 0 - e
                      THEN SubSeq(c, 1, Len(c) + e) \o <<".">>
                           \o SubSeq(c, Len(c) + e + 1, Len(c))
                      ELSE <<"0", ".">> \o Zeros(0 - e - Len(c)) \o c
             scientific ==
                 <<c[1]>> \o (IF Len(c) > 1 THEN <<".">> \o Tail(c) ELSE <<>>)
                 \o <<"E">> \o (IF adjusted < 0 THEN <<"-">> ELSE <<"+">>)
                 \o DigitsOf(IF adjusted < 0 THEN 0 - adjusted ELSE adjusted)
         IN  sign \o (IF e <= 0 /\ adjusted >= 0 - 6 THEN plain ELSE scientific)

\* impl fmt::Display for Symbol
Symbol_fmt(sym) ==
    IF sym.quote_option = "Quoted" THEN <<QUOTE>> \o sym.value \o <<QUOTE>>
    ELSE sym.value

\* impl fmt::Display for Amount
Amount_fmt(a) ==
    LET spacing == IF a.render_options.spacing = "Space" THEN <<" ">> ELSE <<>>
    IN  IF a.render_options.symbol_position = "Left"
        THEN Symbol_fmt(a.symbol) \o spacing \o d128_fmt(a.quantity)
        ELSE d128_fmt(a.quantity) \o spacing \o Symbol_fmt(a.symbol)

\* amounts the amount parser yields: a quantity with a coefficient and up
\* to MaxFractionDigits digits after the point, a symbol, and any
\* RenderOptions
DisplayAmounts ==
    LET quantities ==
            {[nan |-> FALSE, neg |-> n, coefficient |-> c, exponent |-> 0 - f] :
                n \in BOOLEAN, c \in {0, 1, 15, 120}, f \in 0..MaxFractionDigits}
        symbols ==
            {Symbol_new(<<"$">>, "Unquoted"),
             Symbol_new(<<"U", "S", "$">>, "Unquoted"),
             Symbol_new(<<"M", " ", "2">>, "Quoted")}
        render_options ==
            {RenderOptions_new(p, sp) :
                p \in {"Left", "Right"}, sp \in {"Space", "NoSpace"}}
    IN  {Amount_new(q, sy, ro) :
            q \in quantities, sy \in symbols, ro \in render_options}

InitDisplay ==
    /\ header \in {CHOOSE h \in Headers : TRUE}
    /\ postings = <<>>
    /\ balance_status = NotRun
    /\ result = NotRun
    /\ rc_heap = <<>>
    /\ calls = 0
    /\ sub_accounts = <<>>
    /\ account_lineage = None
    /\ contents = <<>>
    /\ lines_read = 0
    /\ parsed = NotRun
    /\ input = <<>>
    /\ output = NotRun

\* format!("{}", amount)
FormatAmount ==
    /\ output = NotRun
    /\ \E a \in DisplayAmounts :
           /\ input' = Amount_fmt(a)
           /\ output' = [kind |-> "Formatted", fn |-> "fmt", amount |-> a]
    /\ UNCHANGED <<balVars, linVars, parseVars>>

\* parser(amount).parse(&text) on the formatted text
ReparseAmount ==
    /\ output.kind = "Formatted"
    /\ output' = [kind |-> "Reparsed", fn |-> "amount", amount |-> output.amount,
                  r |-> amount(input, 1)]
    /\ UNCHANGED <<input, balVars, linVars, parseVars>>

NextDisplay ==
    \/ FormatAmount
    \/ ReparseAmount

SpecDisplay == InitDisplay /\ [][NextDisplay]_vars

(***************************************************************************)
(* Properties of the balance engine                                        *)
(***************************************************************************)
\* what a posting list is, stated without the accumulation loop
MissingIdx(ps) == {i \in 1..Len(ps) : ~ps[i].amount.some}
ProvidedIdx(ps) == {i \in 1..Len(ps) : ps[i].amount.some}
SymbolTexts(ps) == {ps[i].amount.v.symbol.value : i \in ProvidedIdx(ps)}

Zero == Decimal(FALSE, 0, 0)
Units(n) == Decimal(n < 0, IF n < 0 THEN 0 - n ELSE n, 0)
Negated(q) == IF q.nan THEN NaN ELSE [q EXCEPT !.neg = ~@]

\* the sum of the amounts of the first n postings that bear the text
RECURSIVE SumUpTo(_, _, _)
SumUpTo(ps, text, n) ==
    IF n = 0 THEN Zero
    ELSE IF ps[n].amount.some /\ ps[n].amount.v.symbol.value = text
         THEN d128_add(SumUpTo(ps, text, n - 1), ps[n].amount.v.quantity)
         ELSE SumUpTo(ps, text, n - 1)

SumOf(ps, text) == SumUpTo(ps, text, Len(ps))
\* NaN is no zero
NonZeroTexts(ps) == {t \in SymbolTexts(ps) : ~QuantityEq(SumOf(ps, t), Zero)}

Ran == balance_status # NotRun

\* C1: with exactly one missing amount and exactly one symbol text of
\* non-zero sum, ensure_balanced returns Balanced, and the posting at the
\* index of the missing amount carries the negated sum in that symbol,
\* tagged Inferred.
C1_SingleInference ==
    (Ran /\ Cardinality(MissingIdx(postings)) = 1
         /\ Cardinality(NonZeroTexts(postings)) = 1) =>
        LET i == CHOOSE x \in MissingIdx(postings) : TRUE
            t == CHOOSE x \in NonZeroTexts(postings) : TRUE
        IN  /\ balance_status.kind = "Balanced"
            /\ Len(balance_status.postings) = Len(postings)
            /\ balance_status.postings[i].amount.some
            /\ balance_status.postings[i].amount.v.quantity = Negated(SumOf(postings, t))
            /\ balance_status.postings[i].amount.v.symbol.value = t
            /\ balance_status.postings[i].amount_source = "Inferred"

C1_Witness ==
    /\ Ran
    /\ Cardinality(MissingIdx(postings)) = 1
    /\ Cardinality(NonZeroTexts(postings)) = 1
    /\ Len(postings) = 3
    /\ MissingIdx(postings) = {2}
    /\ balance_status.kind = "Balanced"
    /\ balance_status.postings[2].amount.some
    /\ balance_status.postings[2].amount.v.quantity = Units(2)

\* C2: with more than one missing amount ensure_balanced returns
\* MultipleAmountsMissing(n), n the number of postings without an amount,
\* whether or not the provided amounts balance.
C2_MultipleMissing ==
    (Ran /\ Cardinality(MissingIdx(postings)) > 1) =>
        balance_status = MultipleAmountsMissing(Cardinality(MissingIdx(postings)))

C2_Witness ==
    /\ Ran
    /\ Cardinality(MissingIdx(postings)) = 2
    /\ NonZeroTexts(postings) # {}
    /\ balance_status.kind = "MultipleAmountsMissing"

\* C3: when every posting has an amount (the empty list included),
\* ensure_balanced returns Balanced iff every symbol text sums to zero.
C3_BalanceInvariant ==
    (Ran /\ MissingIdx(postings) = {}) =>
        (balance_status.kind = "Balanced" <=> NonZeroTexts(postings) = {})

C3_Witness ==
    /\ Ran
    /\ MissingIdx(postings) = {}
    /\ Cardinality(SymbolTexts(postings)) = 1
    /\ Len(postings) = 2
    /\ balance_status.kind = "Balanced"

\* C4: ensure_balanced returns Unbalanced exactly when at most one amount
\* is missing and (none is missing and some symbol is non-zero, or one is
\* missing and two or more symbols are non-zero); the map then holds
\* exactly the non-zero symbol texts, each with its sum.
C4_UnbalancedExactly ==
    Ran =>
        LET missing == Cardinality(MissingIdx(postings))
            nonzero == NonZeroTexts(postings)
        IN  /\ balance_status.kind = "Unbalanced" <=>
                   /\ missing <= 1
                   /\ \/ missing = 0 /\ nonzero # {}
                      \/ missing = 1 /\ Cardinality(nonzero) >= 2
            /\ balance_status.kind = "Unbalanced" =>
                   /\ DOMAIN balance_status.remaining = nonzero
                   /\ \A t \in nonzero :
                          balance_status.remaining[t].quantity = SumOf(postings, t)

C4_Witness ==
    /\ Ran
    /\ balance_status.kind = "Unbalanced"
    /\ SymbolTexts(postings) # NonZeroTexts(postings)
    /\ \E t \in NonZeroTexts(postings) : SumOf(postings, t) = Units(0 - 1)

C6_NoMissingAmountReachesLowering ==
    /\ balance_status.kind = "Balanced" =>
           \A i \in 1..Len(balance_status.postings) :
               balance_status.postings[i].amount.some
    /\ result.kind # "Panic"

\* C7: the error value of a rejected transaction carries the number of
\* missing amounts (multiple-missing rejection) or the map of symbol to
\* non-zero residual (unbalanced rejection).
C7_ErrorCarriesContext ==
    result.kind = "Err" =>
        /\ balance_status.kind = "MultipleAmountsMissing" =>
               \E i \in 1..Len(result.msg) :
                   /\ DOMAIN result.msg[i] = {"num"}
                   /\ result.msg[i].num = Cardinality(MissingIdx(postings))
        /\ balance_status.kind = "Unbalanced" =>
               \E i \in 1..Len(result.msg) :
                   /\ DOMAIN result.msg[i] = {"map"}
                   /\ result.msg[i].map = balance_status.remaining

\* C10: every Posting of one successful RawTransaction::into_postings call
\* holds the same Header handle, allocated once by that call, and the
\* handle's value is the header of the RawTransaction.
C10_SharedHeader ==
    result.kind = "Ok" =>
        /\ \A i \in 1..Len(result.postings) :
               /\ result.postings[i].header = result.postings[1].header
               /\ result.postings[i].header \in DOMAIN rc_heap
               /\ rc_heap[result.postings[i].header] = header
        /\ Cardinality(DOMAIN rc_heap) <= calls

C10_Witness ==
    /\ result.kind = "Ok"
    /\ Len(result.postings) = 3
    /\ calls = 2
    /\ rc_heap[1] # header

\* the amount of the first posting, in list order, that bears the text
FirstAmountOf(ps, text) ==
    LET bearing == {i \in ProvidedIdx(ps) : ps[i].amount.v.symbol.value = text}
        first == CHOOSE i \in bearing : \A j \in bearing : i <= j
    IN  ps[first].amount.v

\* C23: the entry ensure_balanced keeps for a symbol text has the Symbol
\* (quoting flag included) and the RenderOptions of the first posting in
\* list order that bears the text; so has every entry of an Unbalanced
\* map, and so has the inferred amount.
C23_FirstOccurrenceKept ==
    Ran =>
        /\ balance_status.kind = "Unbalanced" =>
               \A t \in DOMAIN balance_status.remaining :
                   LET entry == balance_status.remaining[t]
                       first == FirstAmountOf(postings, t)
                   IN  /\ entry.symbol = first.symbol
                       /\ entry.render_options = first.render_options
        /\ (/\ balance_status.kind = "Balanced"
            /\ Cardinality(MissingIdx(postings)) = 1
            /\ Cardinality(NonZeroTexts(postings)) = 1) =>
               LET i == CHOOSE x \in MissingIdx(postings) : TRUE
                   t == CHOOSE x \in NonZeroTexts(postings) : TRUE
                   inferred == balance_status.postings[i].amount.v
                   first == FirstAmountOf(postings, t)
               IN  /\ inferred.symbol = first.symbol
                   /\ inferred.render_options = first.render_options

C23_Witness ==
    /\ Ran
    /\ Len(postings) = 3
    /\ postings[1].amount = Some(Amount_new(Units(1), Symbol_new(<<"$">>, "Quoted"),
                                            RenderOptions_new("Right", "Space")))
    /\ ~postings[2].amount.some
    /\ postings[3].amount = Some(Amount_new(Units(1), Symbol_new(<<"$">>, "Unquoted"),
                                            RenderOptions_new("Left", "NoSpace")))
    /\ balance_status.kind = "Balanced"
    /\ balance_status.postings[2].amount =
           Some(Amount_new(Units(0 - 2), Symbol_new(<<"$">>, "Quoted"),
                           RenderOptions_new("Right", "Space")))

\* the posting list with every symbol written unquoted, on the left,
\* without a space
PlainlyWritten(ps) ==
    [i \in 1..Len(ps) |->
        IF ps[i].amount.some
        THEN [ps[i] EXCEPT !.amount.v.symbol.quote_option = "Unquoted",
                           !.amount.v.render_options =
                               RenderOptions_new("Left", "NoSpace")]
        ELSE ps[i]]

\* C24: ensure_balanced groups amounts by the text of the symbol only.
\* The quoting flags and RenderOptions have no part in it: with all of
\* them made alike the outcome kind and the residual of every text are
\* the same; and the residual of a text is the sum of the amounts bearing
\* that text, amounts of another text never being added to it.
C24_GroupedBySymbolText ==
    Ran =>
        LET plain == ensure_balanced(PlainlyWritten(postings))
        IN  /\ plain.kind = balance_status.kind
            /\ balance_status.kind = "Unbalanced" =>
                   /\ DOMAIN plain.remaining = DOMAIN balance_status.remaining
                   /\ \A t \in DOMAIN balance_status.remaining :
                          /\ t \in SymbolTexts(postings)
                          /\ plain.remaining[t].quantity =
                                 balance_status.remaining[t].quantity
                          /\ balance_status.remaining[t].quantity = SumOf(postings, t)

C24_Witness ==
    /\ Ran
    /\ Len(postings) = 3
    /\ postings[1].amount = Some(Amount_new(Units(1), Symbol_new(<<"$">>, "Unquoted"),
                                            RenderOptions_new("Left", "NoSpace")))
    /\ postings[2].amount = Some(Amount_new(Units(1), Symbol_new(<<"A">>, "Unquoted"),
                                            RenderOptions_new("Left", "NoSpace")))
    /\ postings[3].amount = Some(Amount_new(Units(0 - 1), Symbol_new(<<"$">>, "Quoted"),
                                            RenderOptions_new("Right", "Space")))
    /\ balance_status.kind = "Unbalanced"
    /\ DOMAIN balance_status.remaining = {<<"A">>}

\* the sum of the amounts of the first n Postings that bear the text
RECURSIVE LoweredSumUpTo(_, _, _)
LoweredSumUpTo(ps, text, n) ==
    IF n = 0 THEN Zero
    ELSE IF ps[n].amount.symbol.value = text
         THEN d128_add(LoweredSumUpTo(ps, text, n - 1), ps[n].amount.quantity)
         ELSE LoweredSumUpTo(ps, text, n - 1)

\* C26: when RawTransaction::into_postings returns Ok, the amounts of the
\* returned Postings sum to zero for every symbol text.
C26_OkPostingsSumToZero ==
    result.kind = "Ok" =>
        \A i \in 1..Len(result.postings) :
            LET t == result.postings[i].amount.symbol.value
            IN  QuantityEq(LoweredSumUpTo(result.postings, t, Len(result.postings)),
                           Zero)

\* C27: a list returned inside Balanced has the length of the input list
\* and, at every index, the account path and the comment of the input
\* posting; a posting that had an amount is returned as it was (same
\* amount, same source tag); at most one posting differs from its input,
\* one that lacked an amount, and it differs in amount and source tag
\* only.
C27_BalancedFrame ==
    (Ran /\ balance_status.kind = "Balanced") =>
        LET out == balance_status.postings
        IN  /\ Len(out) = Len(postings)
            /\ \A i \in 1..Len(postings) :
                   /\ out[i].sub_accounts = postings[i].sub_accounts
                   /\ out[i].full_account = postings[i].full_account
                   /\ out[i].comment = postings[i].comment
                   /\ postings[i].amount.some =>
                          /\ out[i].amount = postings[i].amount
                          /\ out[i].amount_source = postings[i].amount_source
            /\ Cardinality({i \in 1..Len(postings) : out[i] # postings[i]}) <= 1

C27_Witness ==
    /\ Ran
    /\ balance_status.kind = "Balanced"
    /\ Len(postings) = 3
    /\ MissingIdx(postings) = {2}
    /\ postings[2].comment = Some(<<"n">>)
    /\ postings[2].amount_source = "Provided"
    /\ postings[3].amount_source = "Inferred"
    /\ balance_status.postings[2].amount.some
    /\ balance_status.postings[2].amount_source = "Inferred"
    /\ balance_status.postings[3] = postings[3]

\* the orders a list of n postings can be written in
Orders(n) ==
    {f \in [1..n -> 1..n] : \A i, j \in 1..n : f[i] = f[j] => i = j}

\* the same d128: both NaN, or numbers of equal value
SameQuantity(a, b) == (a.nan /\ b.nan) \/ QuantityEq(a, b)

\* the two outcomes are of one kind, with the same count of missing
\* amounts, the same residual for the same symbol texts, and the same
\* quantity and symbol text in the amount of the posting that lacked one
\* (at index i of a, j of b)
SameClassification(a, i, b, j) ==
    /\ a.kind = b.kind
    /\ a.kind = "MultipleAmountsMissing" => a.n = b.n
    /\ a.kind = "Unbalanced" =>
           /\ DOMAIN a.remaining = DOMAIN b.remaining
           /\ \A t \in DOMAIN a.remaining :
                  /\ SameQuantity(a.remaining[t].quantity, b.remaining[t].quantity)
                  /\ a.remaining[t].symbol.value = b.remaining[t].symbol.value
    /\ (a.kind = "Balanced" /\ i > 0) =>
           /\ a.postings[i].amount.some = b.postings[j].amount.some
           /\ a.postings[i].amount.some =>
                  /\ SameQuantity(a.postings[i].amount.v.quantity,
                                  b.postings[j].amount.v.quantity)
                  /\ a.postings[i].amount.v.symbol.value =
                         b.postings[j].amount.v.symbol.value

GrammarResult ==
    IF parsed.fn = "parse_ledger" THEN ledger(contents, 1)
    ELSE price_db(contents, 1)

\* C8: a whole-file parse returns a list of entries only when the grammar
\* matched the entire buffer; a line that is no transaction, price record,
\* comment line or blank line makes the parse fail, and no list of the
\* entries before it is returned.
C8_NoPartialLedger ==
    parsed.kind = "Ok" => GrammarResult.pos = Len(contents) + 1

\* the lines of a buffer, each with its line ending; the last piece is the
\* text after the last '\n' when there is any
LinesOf(s) ==
    LET RECURSIVE cut(_, _, _)
        cut(from, k, acc) ==
            IF k > Len(s)
            THEN (IF from > Len(s) THEN acc
                  ELSE Append(acc, SubSeq(s, from, Len(s))))
            ELSE IF s[k] = LF
                 THEN cut(k + 1, k + 1, Append(acc, SubSeq(s, from, k)))
                 ELSE cut(from, k + 1, acc)
    IN  cut(1, 1, <<>>)

\* what a line of the buffer is, read off the line itself
LineKind(l) ==
    IF l = HeaderLine THEN "header"
    ELSE IF l \in {PostingLine, PostingNoAmountLine} THEN "posting"
    ELSE IF l = CommentLine THEN "comment"
    ELSE IF l \in {BlankLine, BlankLineWindows} THEN "blank"
    ELSE IF l \in {PriceLine, PriceNoLineEnding} THEN "price"
    ELSE "other"

\* a buffer made of transactions (a header line, then one or more posting
\* or comment lines) and price records, with comment and blank lines
\* before, between and after them
IsLedgerBuffer(s) ==
    LET ls == LinesOf(s)
        RECURSIVE scan(_, _)
        scan(k, at) ==
            IF k > Len(ls) THEN at # "header"
            ELSE LET kind == LineKind(ls[k])
                 IN  IF kind = "other" THEN FALSE
                     ELSE IF kind = "posting"
                          THEN at \in {"header", "transaction"}
                               /\ scan(k + 1, "transaction")
                     ELSE IF kind = "comment"
                          THEN scan(k + 1, IF at = "top" THEN "top"
                                           ELSE "transaction")
                     ELSE IF at = "header" THEN FALSE
                     ELSE IF kind = "header" THEN scan(k + 1, "header")
                     ELSE scan(k + 1, "top")
    IN  scan(1, "top")

\* the value the header line and the price lines of the buffers stand for
HeaderLineValue ==
    Header_new([y |-> 2016, m |-> 6, d |-> 7], "Cleared", None, <<"p">>, None)

PriceLineValue(l) ==
    IF l = PriceLine
    THEN Price_new([y |-> 2016, m |-> 6, d |-> 7], Symbol_new(<<"A">>, "Unquoted"),
                   Amount_new(d128_from_str(<<"1">>), Symbol_new(<<"$">>, "Unquoted"),
                              RenderOptions_new("Left", "NoSpace")))
    ELSE Price_new([y |-> 2016, m |-> 6, d |-> 7], Symbol_new(<<"M">>, "Quoted"),
                   Amount_new(d128_from_str(<<"2">>), Symbol_new(<<"$">>, "Unquoted"),
                              RenderOptions_new("Right", "Space")))

\* the header and price lines of a buffer, in the order they are written
EntryLines(s) ==
    LET IsEntry(l) == LineKind(l) \in {"header", "price"}
    IN  SelectSeq(LinesOf(s), IsEntry)

\* C11: on a buffer made of transactions and price records interleaved
\* with comment and blank lines, parse_ledger returns one ParseTree per
\* header line and per price line, in the order of those lines (a
\* Transaction with that header, a Price with that price), and nothing
\* for the comment and blank lines.
C11_LedgerAssembly ==
    (parsed # NotRun /\ parsed.fn = "parse_ledger" /\ IsLedgerBuffer(contents)) =>
        LET expected == EntryLines(contents)
        IN  /\ parsed.kind = "Ok"
            /\ Len(parsed.entries) = Len(expected)
            /\ \A k \in 1..Len(expected) :
                   IF LineKind(expected[k]) = "header"
                   THEN /\ parsed.entries[k].tag = "Transaction"
                        /\ parsed.entries[k].header = HeaderLineValue
                   ELSE parsed.entries[k] = PriceEntry(PriceLineValue(expected[k]))

C11_Witness ==
    /\ parsed # NotRun
    /\ parsed.fn = "parse_ledger"
    /\ IsLedgerBuffer(contents)
    /\ LinesOf(contents) = <<CommentLine, HeaderLine, PostingLine, PriceLine>>
    /\ parsed.kind = "Ok"
    /\ Len(parsed.entries) = 2

\* the buffer with every '\n' written as '\r\n'
WithWindowsLineEndings(s) ==
    LET RECURSIVE conv(_)
        conv(k) ==
            IF k = 0 THEN <<>>
            ELSE conv(k - 1) \o (IF s[k] = LF THEN <<CR, LF>> ELSE <<s[k]>>)
    IN  conv(Len(s))

HasNoCR(s) == \A k \in 1..Len(s) : s[k] # CR

\* C12: for a buffer written with '\n' line endings, the ledger parser
\* succeeds on the buffer rewritten with '\r\n' line endings iff it
\* succeeds on the buffer itself, and then with the same list of entries.
C12_LineEndingTolerance ==
    (parsed # NotRun /\ parsed.fn = "parse_ledger" /\ HasNoCR(contents)) =>
        LET windows == ledger(WithWindowsLineEndings(contents), 1)
        IN  /\ parsed.kind = "Ok" <=> windows.st = "ok"
            /\ parsed.kind = "Ok" => parsed.entries = windows.v

C12_Witness ==
    /\ parsed # NotRun
    /\ parsed.fn = "parse_ledger"
    /\ LinesOf(contents) = <<HeaderLine, PostingLine, PostingNoAmountLine, PriceLine>>
    /\ parsed.kind = "Ok"
    /\ Len(parsed.entries) = 2
    /\ Len(WithWindowsLineEndings(contents)) = Len(contents) + 4
    /\ ledger(WithWindowsLineEndings(contents), 1).st = "ok"

\* a buffer of price records only, one per line; the last one may lack
\* its line ending
IsPriceBuffer(s) ==
    LET ls == LinesOf(s)
    IN  \A k \in 1..Len(ls) :
            \/ ls[k] = PriceLine
            \/ k = Len(ls) /\ ls[k] = PriceNoLineEnding

\* C22: on a buffer of price records parse_pricedb returns the Price of
\* every record, in the order written (the empty list for the empty
\* buffer); the records are separated by a line ending, and the buffer
\* without the line ending after its last record gives the same list.
C22_PriceDbRecords ==
    (parsed # NotRun /\ parsed.fn = "parse_pricedb" /\ IsPriceBuffer(contents)) =>
        LET ls == LinesOf(contents)
            n == Len(contents)
        IN  /\ parsed.kind = "Ok"
            /\ Len(parsed.entries) = Len(ls)
            /\ \A k \in 1..Len(ls) : parsed.entries[k] = PriceLineValue(ls[k])
            /\ (n > 0 /\ contents[n] = LF) =>
                   LET without == price_db(SubSeq(contents, 1, n - 1), 1)
                   IN  without.st = "ok" /\ without.v = parsed.entries

C22_Witness ==
    /\ parsed # NotRun
    /\ parsed.fn = "parse_pricedb"
    /\ LinesOf(contents) = <<PriceLine, PriceLine, PriceLine>>
    /\ parsed.kind = "Ok"
    /\ Len(parsed.entries) = 3
    /\ price_db(SubSeq(contents, 1, Len(contents) - 1), 1).v = parsed.entries

(***************************************************************************)
(* Properties of the value parsers                                         *)
(***************************************************************************)
RanFn(fn) == output # NotRun /\ output.fn = fn

\* the characters an unquoted symbol may not contain
UnquotedSymbolExcluded == Digits \cup {" ", TAB, "-", ";", QUOTE, CR, LF}

\* length of the longest prefix of s with no character of the set
RunLength(s, excluded) ==
    CHOOSE n \in 0..Len(s) :
        /\ \A k \in 1..n : s[k] \notin excluded
        /\ n < Len(s) => s[n + 1] \in excluded

\* C13: in parse.rs and in chomp.rs the unquoted-symbol parser takes the
\* longest non-empty run of characters that are no digit, space, tab, '-',
\* ';', '"', CR or LF (it fails when that run is empty), so the symbol
\* holds no CR or LF and parsing stops before a line ending.
C13_UnquotedSymbolRun ==
    (RanFn("unquoted_symbol") \/ RanFn("chomp_unquoted_symbol")) =>
        LET n == RunLength(input, UnquotedSymbolExcluded)
        IN  IF n = 0 THEN output.r.st = "err"
            ELSE /\ output.r.st = "ok"
                 /\ output.r.pos = n + 1
                 /\ output.r.v.value = SubSeq(input, 1, n)
                 /\ \A k \in 1..Len(output.r.v.value) :
                        output.r.v.value[k] \notin {CR, LF}

\* a text made of digits, '.' and ',' only
IsDecimalLiteralText(s) ==
    Len(s) > 0 /\ \A k \in 1..Len(s) : s[k] \in Digits \cup {".", ","}

\* a base-10 decimal: at least one digit, at most one '.'
IsWellFormedDecimal(s) ==
    /\ \E k \in 1..Len(s) : s[k] \in Digits
    /\ Cardinality({k \in 1..Len(s) : s[k] = "."}) <= 1

\* C14: on a literal made of digits, '.' and ',' the quantity parser yields
\* a quantity only when the literal without its ',' is a well-formed
\* decimal with at most one '.'; on a malformed literal (two radix points,
\* no digit) it reports a parse failure and yields no quantity.
C14_MalformedQuantityFails ==
    ((RanFn("quantity") \/ RanFn("chomp_quantity")) /\ IsDecimalLiteralText(input)) =>
        IF IsWellFormedDecimal(RemoveCommas(input))
        THEN output.r.st = "ok" /\ ~output.r.v.nan /\ output.r.pos = Len(input) + 1
        ELSE output.r.st = "err"

\* number of digits the text starts with
DigitRunLength(s) ==
    CHOOSE n \in 0..Len(s) :
        /\ \A k \in 1..n : s[k] \in Digits
        /\ n < Len(s) => s[n + 1] \notin Digits

\* the text starts with dddd-dd-dd
IsDateShaped(s) ==
    /\ Len(s) >= 10
    /\ \A k \in {1, 2, 3, 4, 6, 7, 9, 10} : s[k] \in Digits
    /\ s[5] = "-" /\ s[8] = "-"

RECURSIVE DecimalValue(_)
DecimalValue(digits) ==
    IF digits = <<>> THEN 0
    ELSE DecimalValue(SubSeq(digits, 1, Len(digits) - 1)) * 10
         + to_digit(digits[Len(digits)])

WrittenDate(s) ==
    [y |-> DecimalValue(SubSeq(s, 1, 4)),
     m |-> DecimalValue(SubSeq(s, 6, 7)),
     d |-> DecimalValue(SubSeq(s, 9, 10))]

IsCalendarDate(dt) ==
    dt.m \in 1..12 /\ dt.d \in 1..DaysInMonth(dt.y, dt.m)

\* C15: on a text that starts with a 4-digit year, '-', a 2-digit month,
\* '-' and a 2-digit day naming a calendar date, the date parser succeeds
\* with that year, month and day; on a text whose leading run of digits
\* (the year part) is not exactly four digits long it reports a parse
\* failure.
C15_DateFourDigitYear ==
    (RanFn("date") \/ RanFn("chomp_date")) =>
        /\ (IsDateShaped(input) /\ IsCalendarDate(WrittenDate(input))) =>
               /\ output.r.st = "ok"
               /\ output.r.pos = 11
               /\ output.r.v = WrittenDate(input)
        /\ DigitRunLength(input) # 4 => output.r.st = "err"

\* the written decimal literals that are numbers, and the number each is
WellFormedQuantities ==
    {<<"1">>, <<"-", "1">>, <<"1", ".", "5">>, <<"1", ",", "1", "1">>,
     <<".", "5">>, <<",", "1">>}

QuantityWritten(q) ==
    CASE q = <<"1">> -> Decimal(FALSE, 1, 0)
      [] q = <<"-", "1">> -> Decimal(TRUE, 1, 0)
      [] q = <<"1", ".", "5">> -> Decimal(FALSE, 15, 0 - 1)
      [] q = <<"1", ",", "1", "1">> -> Decimal(FALSE, 111, 0)
      [] q = <<".", "5">> -> Decimal(FALSE, 5, 0 - 1)
      [] q = <<",", "1">> -> Decimal(FALSE, 1, 0)

\* the symbol a written symbol stands for
SymbolWritten(sy) ==
    IF sy[1] = QUOTE THEN Symbol_new(SubSeq(sy, 2, Len(sy) - 1), "Quoted")
    ELSE Symbol_new(sy, "Unquoted")

\* the parser read the whole text as this amount
ReadAs(r, text, q, sy, position, g) ==
    /\ r.st = "ok"
    /\ r.pos = Len(text) + 1
    /\ QuantityEq(r.v.quantity, QuantityWritten(q))
    /\ r.v.symbol = SymbolWritten(sy)
    /\ r.v.render_options =
           RenderOptions_new(position, IF g = <<>> THEN "NoSpace" ELSE "Space")

\* C16: the amount parser reads a text written as symbol, optional
\* whitespace, decimal as that amount with RenderOptions Left, a text
\* written as decimal, optional whitespace, symbol as that amount with
\* RenderOptions Right, the spacing being Space exactly when a space or
\* tab separates the two; a decimal with no symbol is rejected.
C16_AmountForms ==
    RanFn("amount") =>
        /\ \A sy \in WrittenSymbols, g \in WrittenGaps, q \in WellFormedQuantities :
               /\ input = sy \o g \o q => ReadAs(output.r, input, q, sy, "Left", g)
               /\ input = q \o g \o sy => ReadAs(output.r, input, q, sy, "Right", g)
        /\ input \in WellFormedQuantities => output.r.st = "err"

\* C29: a text written decimal-first (a decimal literal, optional
\* whitespace, a symbol) is read by the amount parser as that decimal
\* with that symbol and RenderOptions Right; when the literal begins with
\* '.' or ',' the symbol-first alternative does not read it as a symbol.
C29_DecimalFirstAmount ==
    RanFn("amount") =>
        \A sy \in WrittenSymbols, g \in WrittenGaps, q \in WellFormedQuantities :
            input = q \o g \o sy =>
                /\ ReadAs(output.r, input, q, sy, "Right", g)
                /\ q[1] \in {".", ","} =>
                       amount_symbol_then_quantity(input, 1).st # "ok"

\* C17: a parser of the grammar that fails leaves the input where the
\* parser started, and in each ordered alternative (quoted | unquoted
\* symbol, symbol-first | decimal-first amount, transaction | price,
\* comment line | posting line) the second alternative is run from the
\* original position whenever the first fails, so the alternative
\* succeeds exactly when its second branch does.
C17_FailureConsumesNothing ==
    output # NotRun =>
        /\ output.r.st = "err" => output.r.pos = 1
        /\ (RanFn("symbol") /\ quoted_symbol(input, 1).st = "err") =>
               (output.r.st = "ok" <=> unquoted_symbol(input, 1).st = "ok")
        /\ (RanFn("amount") /\ amount_symbol_then_quantity(input, 1).st = "err") =>
               (output.r.st = "ok" <=> amount_quantity_then_symbol(input, 1).st = "ok")
        /\ (RanFn("ledger_entry") /\ transaction(input, 1).st = "err") =>
               (output.r.st = "ok" <=> price(input, 1).st = "ok")
        /\ (RanFn("transaction_line") /\ comment_line(input, 1).st = "err") =>
               (output.r.st = "ok" <=> posting_line(input, 1).st = "ok")

\* an optional '-' followed by a decimal literal that, without its ',',
\* is a well-formed decimal
IsSignedDecimalLiteral(s) ==
    LET body == IF Len(s) > 0 /\ s[1] = "-" THEN Tail(s) ELSE s
    IN  IsDecimalLiteralText(body) /\ IsWellFormedDecimal(RemoveCommas(body))

\* the number a signed decimal literal without ',' stands for
NumberWritten(s) ==
    LET neg == s[1] = "-"
        body == IF neg THEN Tail(s) ELSE s
        dot == IF \E k \in 1..Len(body) : body[k] = "."
               THEN CHOOSE k \in 1..Len(body) : body[k] = "."
               ELSE Len(body) + 1
        whole == SubSeq(body, 1, dot - 1)
        fraction == SubSeq(body, dot + 1, Len(body))
    IN  Decimal(neg, DecimalValue(whole) * Pow10(Len(fraction)) + DecimalValue(fraction),
                0 - Len(fraction))

\* C18: a decimal literal written with ',' among its digits parses to a
\* quantity equal to the one the same literal with every ',' removed
\* parses to, which is the number that literal stands for.
C18_ThousandsSeparators ==
    ((RanFn("quantity") \/ RanFn("chomp_quantity")) /\ IsSignedDecimalLiteral(input)) =>
        LET plain == RemoveCommas(input)
            without == IF RanFn("quantity") THEN quantity(plain, 1)
                       ELSE chomp_quantity(plain, 1)
        IN  /\ output.r.st = "ok"
            /\ output.r.pos = Len(input) + 1
            /\ without.st = "ok"
            /\ QuantityEq(output.r.v, without.v)
            /\ QuantityEq(output.r.v, NumberWritten(plain))

C18_Witness ==
    /\ RanFn("quantity")
    /\ input = <<"1", ",", "1", "1">>
    /\ output.r.st = "ok"
    /\ output.r.v = Decimal(FALSE, 111, 0)

\* C19: formatting an Amount with Display and parsing the text with the
\* amount parser succeeds, consumes the whole text, and yields a quantity
\* equal to the Amount's and a symbol with the same text.
C19_AmountRoundTrip ==
    output.kind = "Reparsed" =>
        /\ output.r.st = "ok"
        /\ output.r.pos = Len(input) + 1
        /\ QuantityEq(output.r.v.quantity, output.amount.quantity)
        /\ output.r.v.symbol.value = output.amount.symbol.value

\* position after the account path the text starts with (sub-accounts of
\* letters and digits joined by ':') and the spaces and tabs after it
AfterAccount(s) ==
    LET path == RunLength(s, {c \in TokenChars \cup {":"} : ~IsAlphaNum(c) /\ c # ":"})
        rest == SubSeq(s, path + 1, Len(s))
    IN  path + RunLength(rest, (TokenChars \cup {":"}) \ {" ", TAB}) + 1

\* something other than a comment or the end of the line follows the
\* account path: an amount is written on the posting
AmountWritten(s) ==
    LET k == AfterAccount(s)
    IN  k <= Len(s) /\ s[k] \notin {";", CR, LF}

\* C21: a RawPosting produced by the posting parser has its amount present
\* and the tag Provided when an amount is written after the account path,
\* and its amount absent and the tag Inferred when none is written; a
\* present amount is never tagged Inferred, an absent one never Provided.
C21_PostingAmountTag ==
    (RanFn("posting") /\ output.r.st = "ok") =>
        LET p == output.r.v
        IN  /\ AmountWritten(input) => (p.amount.some /\ p.amount_source = "Provided")
            /\ ~AmountWritten(input) => (~p.amount.some /\ p.amount_source = "Inferred")
            /\ ~(p.amount.some /\ p.amount_source = "Inferred")
            /\ ~(~p.amount.some /\ p.amount_source = "Provided")

C21_Witness ==
    /\ RanFn("posting")
    /\ input = <<"a", ":", "1", " ", " ", "1", " ", "$", ";", "a">>
    /\ output.r.st = "ok"
    /\ output.r.v.amount.some
    /\ output.r.v.amount_source = "Provided"
    /\ output.r.v.comment = Some(<<"a">>)

(***************************************************************************)
(* Properties of the transaction parser                                    *)
(***************************************************************************)
IsPostingLineText(l) ==
    l \in {PostingLine, PostingNoAmountLine, PostingWithCommentLine}

IsCommentLineText(l) == l \in {CommentLine, IndentedCommentLine}

IsIndented(l) == Len(l) > 0 /\ l[1] \in {" ", TAB}

\* the RawPosting a posting line of the buffers stands for
PostingWritten(l) ==
    CASE l = PostingLine ->
             RawPosting_new(<<<<"A">>, <<"B">>>>,
                 Some(Amount_new(Decimal(FALSE, 150, 0 - 2),
                                 Symbol_new(<<"$">>, "Unquoted"),
                                 RenderOptions_new("Left", "NoSpace"))),
                 "Provided", None)
      [] l = PostingNoAmountLine ->
             RawPosting_new(<<<<"C">>>>, None, "Inferred", None)
      [] l = PostingWithCommentLine ->
             RawPosting_new(<<<<"D">>>>,
                 Some(Amount_new(Decimal(FALSE, 2, 0),
                                 Symbol_new(<<"a">>, "Unquoted"),
                                 RenderOptions_new("Right", "Space"))),
                 "Provided", Some(<<"n">>))

\* the postings written on the posting lines among lines from..to
PostingsWritten(ls, from, to) ==
    LET RECURSIVE collect(_)
        collect(k) ==
            IF k < from THEN <<>>
            ELSE IF IsPostingLineText(ls[k])
                 THEN Append(collect(k - 1), PostingWritten(ls[k]))
                 ELSE collect(k - 1)
    IN  collect(to)

\* index of the first line after the header that satisfies Ends, or one
\* past the last line
FirstLineFrom2(ls, Ends(_)) ==
    CHOOSE t \in 2..(Len(ls) + 1) :
        /\ \A k \in 2..(t - 1) : ~Ends(ls[k])
        /\ t <= Len(ls) => Ends(ls[t])

\* the transaction parser returned the postings of lines 2..(t - 1)
ReturnsPostingsUpTo(ls, t) ==
    /\ output.r.st = "ok"
    /\ output.r.v.tag = "Transaction"
    /\ output.r.v.header = HeaderLineValue
    /\ output.r.v.postings = PostingsWritten(ls, 2, t - 1)

\* C20 as claimed: the transaction ends at the next non-indented line or
\* at the end of the input; when the lines between the header line and
\* that point are posting lines and comment lines, the parser returns the
\* postings of those posting lines, in order.
C20_PostingsUntilNonIndentedLine ==
    LET ls == LinesOf(contents)
        NotIndented(l) == ~IsIndented(l)
        t == FirstLineFrom2(ls, NotIndented)
    IN  (/\ RanFn("transaction")
         /\ Len(ls) >= 2 /\ ls[1] = HeaderLine
         /\ t > 2
         /\ \A k \in 2..(t - 1) : IsPostingLineText(ls[k]) \/ IsCommentLineText(ls[k]))
        => ReturnsPostingsUpTo(ls, t)

\* C20 amended: the transaction ends at the next line that is neither a
\* posting line nor a comment line (indented or not), or at the end of
\* the input; the parser returns the postings of the posting lines
\* between the header line and that point, in order, and stops there.
C20_PostingsOfTheRun ==
    LET ls == LinesOf(contents)
        NotInRun(l) == ~(IsPostingLineText(l) \/ IsCommentLineText(l))
        t == FirstLineFrom2(ls, NotInRun)
        RECURSIVE length(_)
        length(k) == IF k = 0 THEN 0 ELSE length(k - 1) + Len(ls[k])
    IN  (RanFn("transaction") /\ Len(ls) >= 2 /\ ls[1] = HeaderLine /\ t > 2)
        => /\ ReturnsPostingsUpTo(ls, t)
           /\ output.r.pos = length(t - 1) + 1

C20_Witness ==
    /\ RanFn("transaction")
    /\ LinesOf(contents) =
           <<HeaderLine, PostingLine, CommentLine, PostingNoAmountLine>>
    /\ output.r.st = "ok"
    /\ Len(output.r.v.postings) = 2

\* a line of optional spaces and tabs, an optional comment and a line
\* ending
IsSkippedLineText(l) ==
    l \in {CommentLine, IndentedCommentLine, BlankLine, BlankLineWindows}

\* C25: on a buffer that starts with zero or more comment or blank lines
\* and then ends or goes on with a line that begins a transaction or a
\* price record, skip_comment_or_empty_lines succeeds and stops right
\* after the last of those lines.
C25_SkipsCommentAndBlankLines ==
    LET ls == LinesOf(contents)
        t == CHOOSE k \in 1..(Len(ls) + 1) :
                 /\ \A j \in 1..(k - 1) : IsSkippedLineText(ls[j])
                 /\ k <= Len(ls) => ~IsSkippedLineText(ls[k])
        RECURSIVE length(_)
        length(k) == IF k = 0 THEN 0 ELSE length(k - 1) + Len(ls[k])
    IN  (/\ RanFn("skip_comment_or_empty_lines")
         /\ t <= Len(ls) => ls[t] \in {HeaderLine, PriceLine})
        => /\ output.r.st = "ok"
           /\ output.r.pos = length(t - 1) + 1

C25_Witness ==
    /\ RanFn("skip_comment_or_empty_lines")
    /\ LinesOf(contents) = <<IndentedCommentLine, BlankLineWindows, CommentLine, HeaderLine>>
    /\ output.r.st = "ok"
    /\ output.r.pos = Len(contents) - Len(HeaderLine) + 1

(***************************************************************************)
(* Termination of the ledger parser                                        *)
(***************************************************************************)
\* at every position of the buffer, a round of each repetition of the
\* grammar that succeeds ends at a later position
RoundsAdvance(s) ==
    \A j \in 1..(Len(s) + 1) :
        /\ comment_or_empty_line(s, j).st = "ok" => comment_or_empty_line(s, j).pos > j
        /\ whitespace(s, j).st = "ok" => whitespace(s, j).pos > j
        /\ transaction_line(s, j).st = "ok" => transaction_line(s, j).pos > j
        /\ transaction(s, j).st = "ok" => transaction(s, j).pos > j
        /\ price(s, j).st = "ok" => price(s, j).pos > j

\* C30: on every buffer the ledger parser terminates: a round of any of
\* its repetitions (entries, skipped lines, whitespace runs, transaction
\* lines) that does not fail consumes at least one character, and the run
\* reaches its result.
C30_LedgerTerminates ==
    /\ [](parsed = Running("leading", 1, <<>>) => RoundsAdvance(contents))
    /\ <>(parsed # NotRun /\ parsed.kind \in {"Ok", "Panic"})

C30_Witness ==
    /\ parsed # NotRun
    /\ parsed.kind = "Ok"
    /\ LinesOf(contents) = <<CommentLine, HeaderLine, PostingLine, PriceLine>>
    /\ Len(parsed.entries) = 2
    /\ parsed = Parsed("parse_ledger", ledger(contents, 1))

====
